---- MODULE Spec2Model ----
(***************************************************************************)
(* Support-desk bot: the four file-backed stores (feature state, action    *)
(* history, usage ledger, fix store), the permission checks, the feature   *)
(* toggle panel and the command / button / event handlers of bot.py and    *)
(* modules/thread_manager.py.                                              *)
(*                                                                         *)
(* A store file is a record [st, data]: st is "missing", "corrupt"         *)
(* (unparseable JSON) or "ok", and data is the parsed JSON value when      *)
(* st = "ok".  Every store operation is a synchronous load-mutate-replace, *)
(* so an operator maps the file before the call to the file after it.      *)
(* Time is counted in hours; money is kept in nano-dollars so that the     *)
(* cost arithmetic is exact.                                               *)
(***************************************************************************)
EXTENDS Integers, Sequences, FiniteSets, TLC

VARIABLES
    stateFile,      \* bot_state.json
    historyFile,    \* bot_history.json
    usageFile,      \* api_usage.json
    fixesFile,      \* fixes.json
    now,            \* current UTC time, in hours
    nextId,         \* source of fresh uuid4 values
    chans,          \* platform state of the channels and forum threads
    posted,         \* ThreadManager._posted_inactivity
    panels,         \* the live ToggleView of each mode
    msgs,           \* messages the bot made visible in a channel
    aiCalls,        \* number of AIClient.generate_fix calls made
    last,           \* the operation that ran last, its caller and its replies
    logged,         \* every entry log_action appended since the log was empty
    lastSet,        \* feature -> the value its latest enable / disable call set
    prev,           \* the stores and the platform as they were before the last operation
    flaky,          \* whether platform calls may fail in this behaviour
    ai_client,             \* the AIClient: its semaphore and the generate_fix calls under way
    tasks,          \* handlers under way on the event loop, and who holds the loop
    tmpFiles,       \* the .tmp file of each store, and the save under way
    steps           \* number of operations run so far

vars == <<stateFile, historyFile, usageFile, fixesFile, now, nextId, chans,
          posted, panels, msgs, aiCalls, last, logged, lastSet, prev, flaky, ai_client,
          tasks, tmpFiles, steps>>

----------------------------------------------------------------------------
(* Bounds of the model *)

MaxSteps == 2
MaxFaultSteps == 2
MaxLogs == 3
MaxTracks == 3
MaxToggles == 3
MaxTicks == 2
MaxCalls == 4
MaxSweepSteps == 4
MaxSaves == 2
MaxAdds == 2
MaxSearches == 2
MaxK == 3
MaxGateSteps == 2
MaxDays == 1
MaxWelcomeSteps == 3
MaxLoopLogs == 1
MaxQueries == 2
MaxLimit == 3
DaysPerMonth == 2

----------------------------------------------------------------------------
(* Generic helpers *)

EmptyMap == [k \in {} |-> TRUE]

Put(m, k, v) == [x \in (DOMAIN m) \cup {k} |-> IF x = k THEN v ELSE m[x]]

Get(m, k, default) == IF k \in DOMAIN m THEN m[k] ELSE default

\* Python's s[-n:]
TailSlice(s, n) ==
    IF n > 0
    THEN IF Len(s) <= n THEN s ELSE SubSeq(s, Len(s) - n + 1, Len(s))
    ELSE IF -n >= Len(s) THEN << >> ELSE SubSeq(s, 1 - n, Len(s))

Missing(empty) == [st |-> "missing", data |-> empty]
Corrupt(empty) == [st |-> "corrupt", data |-> empty]
Ok(value) == [st |-> "ok", data |-> value]

----------------------------------------------------------------------------
(* bot_state.py *)

Features == {"bot", "autoresponse", "auto_analyze_solved", "ocr", "ask", "say",
             "stats", "analyze", "search", "fix", "history", "mark_for_review"}

DefaultState ==
    [f \in {"bot", "autoresponse", "ocr", "ask", "say", "stats", "analyze",
            "search", "fix", "history", "mark_for_review"} |-> TRUE]

\* a load that starts from an empty map when the file is unusable
load_state_empty(file) == IF file.st = "ok" THEN file.data ELSE EmptyMap

load_state(file) == IF file.st = "ok" THEN file.data ELSE DefaultState

save_state(state) == Ok(state)

\* a lookup that treats an absent key as disabled
is_enabled_strict(file, feature) == Get(load_state(file), feature, FALSE)

is_enabled(file, feature) == Get(load_state(file), feature, TRUE)

enable(file, feature) == save_state(Put(load_state(file), feature, TRUE))

disable(file, feature) == save_state(Put(load_state(file), feature, FALSE))

get_all_states(file) == load_state(file)

----------------------------------------------------------------------------
(* bot_history.py *)

HISTORY_CAP == 1000

load_history(file) == IF file.st = "ok" THEN file.data ELSE << >>

\* a save that keeps everything
save_history_all(history) == Ok(history)

save_history(history) == Ok(TailSlice(history, HISTORY_CAP))

HistoryEntry(t, action_type, user, details, channel) ==
    [timestamp |-> t, action_type |-> action_type, user |-> user,
     channel |-> channel, details |-> details]

log_action(file, t, action_type, user, details, channel) ==
    save_history(Append(load_history(file),
                        HistoryEntry(t, action_type, user, details, channel)))

get_recent_history(file, limit) == TailSlice(load_history(file), limit)

get_history_by_type(file, action_type, limit) ==
    LET filtered == SelectSeq(load_history(file), LAMBDA h : h.action_type = action_type)
    IN TailSlice(filtered, limit)

get_history_by_user(file, user, limit) ==
    LET filtered == SelectSeq(load_history(file), LAMBDA h : h.user = user)
    IN TailSlice(filtered, limit)

----------------------------------------------------------------------------
(* api_usage.py *)

\* nano-dollars per 1000 characters
COST_PER_1K_INPUT == 125000
COST_PER_1K_OUTPUT == 375000

ZeroBucket == [requests |-> 0, input_chars |-> 0, output_chars |-> 0, cost |-> 0]

ZeroUsage ==
    [total_requests |-> 0, total_input_chars |-> 0, total_output_chars |-> 0,
     total_cost |-> 0, daily |-> << >>, monthly |-> << >>]

\* strftime("%Y-%m") and strftime("%Y-%m-%d") of a time given in hours
MonthKey(t) == (t \div 24) \div DaysPerMonth
DayKey(t) == <<MonthKey(t), ((t \div 24) % DaysPerMonth) + 1>>

\* daily and monthly are JSON objects: sequences of <<key, bucket>> pairs
HasKey(obj, k) == \E i \in 1..Len(obj) : obj[i][1] = k
Lookup(obj, k) == obj[CHOOSE i \in 1..Len(obj) : obj[i][1] = k][2]
Keys(obj) == {obj[i][1] : i \in 1..Len(obj)}

AddToBucket(b, input_chars, output_chars, cost) ==
    [requests |-> b.requests + 1,
     input_chars |-> b.input_chars + input_chars,
     output_chars |-> b.output_chars + output_chars,
     cost |-> b.cost + cost]

BumpBucket(obj, k, input_chars, output_chars, cost) ==
    LET withKey == IF HasKey(obj, k) THEN obj ELSE Append(obj, <<k, ZeroBucket>>)
    IN [i \in 1..Len(withKey) |->
           IF withKey[i][1] = k
           THEN <<k, AddToBucket(withKey[i][2], input_chars, output_chars, cost)>>
           ELSE withKey[i]]

load_usage(file) == IF file.st = "ok" THEN file.data ELSE ZeroUsage

save_usage(usage) == Ok(usage)

RequestCost(input_chars, output_chars) ==
    (input_chars * COST_PER_1K_INPUT) \div 1000
    + (output_chars * COST_PER_1K_OUTPUT) \div 1000

\* a tracker that leaves the monthly buckets alone
track_request_no_month(file, t, input_chars, output_chars) ==
    LET usage == load_usage(file)
        total_cost == RequestCost(input_chars, output_chars)
    IN save_usage(
         [usage EXCEPT !.total_requests = @ + 1,
                       !.total_input_chars = @ + input_chars,
                       !.total_output_chars = @ + output_chars,
                       !.total_cost = @ + total_cost,
                       !.daily = BumpBucket(@, DayKey(t), input_chars, output_chars,
                                            total_cost)])

\* a tracker that starts the daily buckets afresh on every new day
track_request_fresh_day(file, t, input_chars, output_chars) ==
    LET usage == load_usage(file)
        total_cost == RequestCost(input_chars, output_chars)
        daily == IF HasKey(usage.daily, DayKey(t)) THEN usage.daily ELSE << >>
    IN save_usage(
         [total_requests |-> usage.total_requests + 1,
          total_input_chars |-> usage.total_input_chars + input_chars,
          total_output_chars |-> usage.total_output_chars + output_chars,
          total_cost |-> usage.total_cost + total_cost,
          daily |-> BumpBucket(daily, DayKey(t), input_chars, output_chars, total_cost),
          monthly |-> BumpBucket(usage.monthly, MonthKey(t), input_chars, output_chars, total_cost)])

track_request(file, t, input_chars, output_chars) ==
    LET usage == load_usage(file)
        total_cost == RequestCost(input_chars, output_chars)
    IN save_usage(
         [total_requests |-> usage.total_requests + 1,
          total_input_chars |-> usage.total_input_chars + input_chars,
          total_output_chars |-> usage.total_output_chars + output_chars,
          total_cost |-> usage.total_cost + total_cost,
          daily |-> BumpBucket(usage.daily, DayKey(t), input_chars, output_chars, total_cost),
          monthly |-> BumpBucket(usage.monthly, MonthKey(t), input_chars, output_chars, total_cost)])

get_today_stats(file, t) ==
    LET usage == load_usage(file)
    IN IF HasKey(usage.daily, DayKey(t)) THEN Lookup(usage.daily, DayKey(t)) ELSE ZeroBucket

----------------------------------------------------------------------------
(* modules/fix_store.py *)

load_fixes(file) == IF file.st = "ok" THEN file.data ELSE << >>

save_fixes(fixes) == Ok(fixes)

FixEntry(id, t, source, thread_id, thread_name, problem_summary, fix_text, confidence) ==
    [id |-> id, created_at |-> t, source |-> source, thread_id |-> thread_id,
     thread_name |-> thread_name, problem_summary |-> problem_summary,
     fix |-> fix_text, confidence |-> confidence, language |-> "None",
     tags |-> << >>, attachments |-> << >>, version |-> 1]

\* an add that puts the new record first
add_fix_front(file, id, t, source, thread_id, thread_name, problem_summary, fix_text, confidence) ==
    save_fixes(<<FixEntry(id, t, source, thread_id, thread_name,
                          problem_summary, fix_text, confidence)>> \o load_fixes(file))

add_fix(file, id, t, source, thread_id, thread_name, problem_summary, fix_text, confidence) ==
    save_fixes(Append(load_fixes(file),
                      FixEntry(id, t, source, thread_id, thread_name,
                               problem_summary, fix_text, confidence)))

----------------------------------------------------------------------------
(* The chat platform as the bot sees it *)

Users == {"alice", "bob", "carol"}

ADMIN_ROLE_IDS == {"1324169948444102848", "1429151393851379842", "1327057500242972702"}
STAFF_ROLE_IDS == {"1422106035337826315", "1419081648435237036"}

\* interaction.user.roles; a user without a roles attribute has no role
UserRoles(u) ==
    CASE u = "alice" -> {"1429151393851379842", "everyone"}
      [] u = "bob"   -> {"1419081648435237036", "everyone"}
      [] OTHER       -> {"everyone"}

Threads == {"t1", "t2", "t3"}
Channels == Threads \cup {"general"}

SUPPORT_FORUM_ID == "1411119542456811722"
SUPPORT_ROLE_ID == "support_role"
BACKUP_WEBHOOK_URL == "webhook"

ThreadParent(c) == IF c \in {"t1", "t2"} THEN SUPPORT_FORUM_ID ELSE "other_forum"

\* parent_channel.available_tags
AvailableTags(forum) ==
    IF forum = SUPPORT_FORUM_ID THEN {"Bug", "Resolved", "CLOSED"} ELSE {"Question"}

\* thread.owner_id, and thread.owner (None when the member is not cached)
ThreadOwnerId(c) ==
    CASE c = "t1" -> "carol" [] c = "t2" -> "bob" [] c = "t3" -> "erin" [] OTHER -> "None"
ThreadOwner(c) == IF ThreadOwnerId(c) \in Users THEN ThreadOwnerId(c) ELSE "None"

ChanName(c) ==
    CASE c = "t1" -> "bot crashes on start" [] c = "t2" -> "How to install"
      [] c = "t3" -> "question" [] OTHER -> "general"

\* the non-bot messages of a channel, oldest first, joined as "author: content"
Transcript(c) ==
    CASE c = "t1" -> "carol: Traceback in main.py"
      [] c = "t2" -> "bob: pip fails"
      [] OTHER -> ""

\* text the OCR handler extracts from the channel's recent images ("" if none)
OcrText(c) == IF c = "t1" THEN "KeyError" ELSE ""

UPPER == "ABCDEFGHIJKLMNOPQRSTUVWXYZ"
LOWER == "abcdefghijklmnopqrstuvwxyz"

\* the lower-case letter of every upper-case letter
LowerOf ==
    [ch \in {SubSeq(UPPER, i, i) : i \in 1..26} |->
        LET i == CHOOSE i \in 1..26 : SubSeq(UPPER, i, i) = ch IN SubSeq(LOWER, i, i)]

\* str.lower(), letter by letter
RECURSIVE LowerFrom(_, _)
LowerFrom(text, i) ==
    IF i > Len(text) THEN ""
    ELSE LET ch == SubSeq(text, i, i)
         IN (IF ch \in DOMAIN LowerOf THEN LowerOf[ch] ELSE ch) \o LowerFrom(text, i + 1)

\* the lower-cased thread titles and title-and-transcript texts, worked out once
LoweredTexts ==
    [text \in {ChanName(c) : c \in Channels}
               \cup {ChanName(c) \o " " \o Transcript(c) : c \in Channels}
        |-> LowerFrom(text, 1)]

Lower(text) == IF text \in DOMAIN LoweredTexts THEN LoweredTexts[text] ELSE LowerFrom(text, 1)

\* Python's  q in text
Occurs(q, text) ==
    \E i \in 1..(Len(text) - Len(q) + 1) : SubSeq(text, i, i + Len(q) - 1) = q

\* a comparison that minds the casing
exact_tag(tag) == tag

\* tag.name.lower()
LowerTag(tag) == Lower(tag)

\* the keyword phrases that occur in the lower-cased text
Phrases(text) ==
    CASE text = "How to install" -> {"how to install"}
      [] text = "#Maybe# reinstall it." -> {"maybe"}
      [] text = "Maybe reinstall it." -> {"maybe"}
      [] text = "Confidence 80: restart." -> {"confidence"}
      [] OTHER -> {}

----------------------------------------------------------------------------
(* Permission checks, bot.py *)

has_admin_role(u) == \E r \in UserRoles(u) : r \in ADMIN_ROLE_IDS

has_staff_role(u) == \E r \in UserRoles(u) : r \in STAFF_ROLE_IDS

\* a check that lets everyone through
can_use_command_open(u) == TRUE

can_use_command(u) == has_admin_role(u) \/ has_staff_role(u)

\* a check that accepts staff as well
can_use_admin_only_staff(u) == has_admin_role(u) \/ has_staff_role(u)

can_use_admin_only(u) == has_admin_role(u)

\* a check that accepts the owner of any thread
owns_some_thread(u, c) == \E t \in Threads : ThreadOwnerId(t) = u

\* interaction.channel.owner_id == interaction.user.id, for a Thread
is_thread_owner(u, c) == c \in Threads /\ ThreadOwnerId(c) = u

----------------------------------------------------------------------------
(* Text helpers, bot.py and modules/utils.py *)

AI_TIMEOUT == "[!] AI request timed out."
AI_FAILED == "[!] AI request failed."

\* what AIClient.generate_fix may return; # stands for a backtick
AIReplies == {"Restart the bot.", "#Maybe# reinstall it.", AI_FAILED}

strip_markdown_embeds(text) ==
    CASE text = "#Maybe# reinstall it." -> "Maybe reinstall it."
      [] OTHER -> text

\* in percent
confidence_heuristic(text) ==
    IF Phrases(text) \cap {"i think", "possibly", "maybe", "not sure", "uncertain"} # {}
    THEN 35
    ELSE IF "confidence" \in Phrases(text) THEN 90 ELSE 70

TRAINED_PATTERNS ==
    << [name |-> "discord.py install",
        keywords |-> {"install discord.py", "pip install discord", "how to install"},
        response |-> "Installing discord.py: pip install discord.py"],
       [name |-> "intents",
        keywords |-> {"intents are required", "privileged intent", "enable intents", "intent error"},
        response |-> "Enable Privileged Gateway Intents"],
       [name |-> "token invalid",
        keywords |-> {"invalid token", "improper token", "token error", "401 unauthorized"},
        response |-> "Reset your bot token"],
       [name |-> "slash commands not showing",
        keywords |-> {"slash commands not showing", "commands don't appear", "sync commands",
                      "/ commands not working"},
        response |-> "Sync the command tree"],
       [name |-> "rate limit",
        keywords |-> {"rate limit", "429", "too many requests", "ratelimit"},
        response |-> "Add delays between requests"],
       [name |-> "on_message not working",
        keywords |-> {"on_message not working", "bot not responding to messages",
                      "message event not firing"},
        response |-> "Enable the message content intent"],
       [name |-> "embed",
        keywords |-> {"how to make embed", "create embed", "embed tutorial", "discord embed"},
        response |-> "Use discord.Embed"] >>

\* "None" when no pattern matches
\* keyword.lower() for the keywords of every pattern
LoweredKeywords ==
    [i \in 1..Len(TRAINED_PATTERNS) |-> {Lower(keyword) : keyword \in TRAINED_PATTERNS[i].keywords}]

get_trained_response_exact(title, content) == LET hits == {i \in 1..Len(TRAINED_PATTERNS) : \E keyword \in TRAINED_PATTERNS[i].keywords : Occurs(keyword, title \o " " \o content)} IN IF hits = {} THEN "None" ELSE TRAINED_PATTERNS[CHOOSE i \in hits : \A j \in hits : i <= j].response

\* the loop over the patterns: the response of the first pattern one of whose
\* keywords occurs in the text, "None" without a match
FirstMatch(combined_text) ==
    LET hits == {i \in 1..Len(TRAINED_PATTERNS) :
                    \E keyword \in LoweredKeywords[i] : Occurs(keyword, combined_text)}
    IN IF hits = {} THEN "None"
       ELSE TRAINED_PATTERNS[CHOOSE i \in hits : \A j \in hits : i <= j].response

\* the outcome for the title and transcript of every channel, worked out once
TrainedReplies ==
    [text \in {ChanName(c) \o " " \o Transcript(c) : c \in Channels} |-> FirstMatch(Lower(text))]

get_trained_response(title, content) ==
    LET text == title \o " " \o content
    IN IF text \in DOMAIN TrainedReplies THEN TrainedReplies[text] ELSE FirstMatch(Lower(text))

----------------------------------------------------------------------------
(* modules/ai_client.py *)

\* AIClient(api_key=GEMINI_API_KEY, max_concurrency=2)
MAX_CONCURRENCY == 2

\* JSON values, tagged with their Python type; the pairs of a dict are
\* <<key, value>> in the order of the document
JStr(s) == [t |-> "str", v |-> s]
JNum(n) == [t |-> "num", v |-> n]
JList(items) == [t |-> "list", v |-> items]
JDict(pairs) == [t |-> "dict", v |-> pairs]
JNone == [t |-> "none", v |-> 0]

\* the outcome of evaluating an expression: a value, or an exception raised
Ret(value) == [exc |-> "none", val |-> value]
Raise(exception) == [exc |-> exception, val |-> JNone]

\* bool(x)
Truthy(x) ==
    CASE x.t = "str" -> x.v # ""
      [] x.t = "num" -> x.v # 0
      [] x.t = "list" -> x.v # << >>
      [] x.t = "dict" -> x.v # << >>
      [] OTHER -> FALSE

\* d.get(k, default) of a dict d
DictGet(d, k, default) == IF HasKey(d.v, k) THEN Lookup(d.v, k) ELSE default

\* x.get(k, default) of any value
PyGet(x, k, default) ==
    IF x.t = "dict" THEN Ret(DictGet(x, k, default)) ELSE Raise("AttributeError")

\* x[0]
Index0(x) ==
    CASE x.t = "list" -> IF x.v = << >> THEN Raise("IndexError") ELSE Ret(x.v[1])
      [] x.t = "str" -> IF x.v = "" THEN Raise("IndexError")
                        ELSE Ret(JStr(SubSeq(x.v, 1, 1)))
      [] x.t = "dict" -> Raise("KeyError")
      [] OTHER -> Raise("TypeError")

\* the whole text
take_all(text, n) == text

\* text[:n]
Take(text, n) == SubSeq(text, 1, IF Len(text) < n THEN Len(text) ELSE n)

RECURSIVE IntStr(_)
IntStr(n) ==
    IF n < 10 THEN SubSeq("0123456789", n + 1, n + 1)
    ELSE IntStr(n \div 10) \o SubSeq("0123456789", (n % 10) + 1, (n % 10) + 1)

\* str(data)
RECURSIVE Repr(_)
Repr(x) ==
    LET Items(i) ==
            IF x.t = "list" THEN Repr(x.v[i])
            ELSE "'" \o x.v[i][1] \o "': " \o Repr(x.v[i][2])
        Joined[i \in 0..Len(x.v)] ==
            IF i = 0 THEN ""
            ELSE IF i = 1 THEN Items(1)
            ELSE Joined[i - 1] \o ", " \o Items(i)
    IN CASE x.t = "str" -> "'" \o x.v \o "'"
         [] x.t = "num" -> IntStr(x.v)
         [] x.t = "list" -> "[" \o Joined[Len(x.v)] \o "]"
         [] x.t = "dict" -> "{" \o Joined[Len(x.v)] \o "}"
         [] OTHER -> "None"

\* "".join(p.get("text", "") for p in parts)
RECURSIVE JoinFrom(_, _)
JoinFrom(items, i) ==
    IF i > Len(items) THEN Ret(JStr(""))
    ELSE LET text == PyGet(items[i], "text", JStr(""))
             rest == JoinFrom(items, i + 1)
         IN IF text.exc # "none" THEN text
            ELSE IF rest.exc # "none" THEN rest
            ELSE IF text.val.t # "str" THEN Raise("TypeError")
            ELSE Ret(JStr(text.val.v \o rest.val.v))

JoinParts(parts) ==
    CASE parts.t = "list" -> JoinFrom(parts.v, 1)
      [] parts.t = "str" -> IF parts.v = "" THEN Ret(JStr("")) ELSE Raise("AttributeError")
      [] parts.t = "dict" -> IF parts.v = << >> THEN Ret(JStr("")) ELSE Raise("AttributeError")
      [] OTHER -> Raise("TypeError")

\* the candidates branch of _call_api: text_out, JNone when nothing was found
ExtractText(data) ==
    LET c1 == DictGet(data, "candidates", JNone)
        c2 == DictGet(data, "outputs", JNone)
        candidates == IF Truthy(c1) THEN c1 ELSE IF Truthy(c2) THEN c2 ELSE JList(<< >>)
    IN IF ~Truthy(candidates) THEN Ret(JNone)
       ELSE
       LET first == Index0(candidates)
       IN IF first.exc # "none" THEN first
          ELSE
          LET content == IF first.val.t = "dict"
                         THEN DictGet(first.val, "content", JNone) ELSE JNone
          IN IF content.t = "list" /\ Truthy(content)
             THEN LET parts == PyGet(content.v[1], "parts", JList(<< >>))
                  IN IF parts.exc # "none" THEN parts ELSE JoinParts(parts.val)
             ELSE IF content.t = "dict"
             THEN LET parts == DictGet(content, "parts", JList(<< >>))
                  IN IF ~Truthy(parts) THEN Ret(JNone)
                     ELSE LET p0 == Index0(parts)
                          IN IF p0.exc # "none" THEN p0
                             ELSE PyGet(p0.val, "text", JNone)
             ELSE IF content.t = "str" THEN Ret(content)
             ELSE Ret(JNone)

\* for key in ["text", "message", "output"]: the last string field wins
TopLevelText(data, text_out) ==
    LET Pick(key, sofar) ==
            IF HasKey(data.v, key) /\ Lookup(data.v, key).t = "str"
            THEN Lookup(data.v, key) ELSE sofar
    IN Pick("output", Pick("message", Pick("text", text_out)))

\* "parse common shapes" down to  return text_out
ParseBody(data) ==
    LET t1 == IF data.t = "dict" THEN ExtractText(data) ELSE Ret(JNone)
    IN IF t1.exc # "none" THEN t1
       ELSE LET t2 == IF data.t = "dict" /\ ~Truthy(t1.val)
                      THEN TopLevelText(data, t1.val) ELSE t1.val
            IN Ret(IF ~Truthy(t2) THEN JStr(Repr(data)) ELSE t2)

\* await resp.json() and await resp.text()
resp_json(body) == IF body.json THEN Ret(body.data) ELSE Raise("JSONDecodeError")
resp_text(body) == IF body.decodable THEN Ret(JStr(body.raw)) ELSE Raise("UnicodeDecodeError")

\* the body of the outer try of _call_api
TryCallApi(response) ==
    CASE response.net = "timeout" -> Raise("TimeoutError")
      [] response.net = "error" -> Raise("ClientError")
      [] OTHER ->
           LET data == resp_json(response.body)
           IN IF data.exc # "none"
              THEN LET text == resp_text(response.body)
                   IN IF text.exc # "none" THEN text
                      ELSE Ret(JStr(Take(text.val.v, 4000)))
              ELSE ParseBody(data.val)

\* a handler that lets the exception through
on_exception_reraise(r) == r

\* except asyncio.TimeoutError / except Exception
on_exception(r) ==
    IF r.exc = "none" THEN r
    ELSE IF r.exc = "TimeoutError" THEN Ret(JStr(AI_TIMEOUT))
    ELSE Ret(JStr(AI_FAILED))

_call_api(response) == on_exception(TryCallApi(response))

\* what the caller of generate_fix gets
generate_fix(response) == _call_api(response)

\* responses of the AI service
Obj(key, value) == JDict(<< <<key, value>> >>)
Part(text) == Obj("text", JStr(text))
JsonBody(data) == [json |-> TRUE, decodable |-> TRUE, raw |-> "", data |-> data]
TextBody(raw) == [json |-> FALSE, decodable |-> TRUE, raw |-> raw, data |-> JNone]
BinaryBody == [json |-> FALSE, decodable |-> FALSE, raw |-> "", data |-> JNone]
Http(status, body) == [net |-> "ok", status |-> status, body |-> body]
TimedOut == [net |-> "timeout", status |-> 0, body |-> BinaryBody]
ConnectionFailed == [net |-> "error", status |-> 0, body |-> BinaryBody]

RECURSIVE Repeat(_, _)
Repeat(text, n) == IF n = 0 THEN "" ELSE text \o Repeat(text, n - 1)

\* a page of 4100 characters
LongPage == Repeat(Repeat("0123456789", 10), 41)

ListContent(parts) == Obj("candidates", JList(<<Obj("content", JList(<<Obj("parts", parts)>>))>>))

HelloResponse == Http(200, JsonBody(ListContent(JList(<<Part("Hello")>>))))
TwoPartResponse == Http(200, JsonBody(ListContent(JList(<<Part("Restart "), Part("the bot.")>>))))
MappingResponse ==
    Http(200, JsonBody(Obj("outputs",
        JList(<<Obj("content", Obj("parts", JList(<<Part("First"), Part("Second")>>)))>>))))
StringResponse == Http(200, JsonBody(Obj("candidates", JList(<<Obj("content", JStr("Plain"))>>))))
TopLevelResponse == Http(200, JsonBody(Obj("text", JStr("Top"))))
TwoFieldResponse ==
    Http(200, JsonBody(JDict(<< <<"candidates", JList(<< >>)>>, <<"message", JStr("Msg")>>,
                                <<"output", JStr("Out")>> >>)))
NoPartsResponse == Http(200, JsonBody(ListContent(JList(<< >>))))
ArrayResponse == Http(200, JsonBody(JList(<<JStr("x"), JNum(12)>>)))
QuotaResponse == Http(429, JsonBody(Obj("error", Obj("status", JStr("RESOURCE_EXHAUSTED")))))
ServerErrorResponse == Http(500, JsonBody(Obj("message", JStr("Internal error"))))
GatewayResponse == Http(502, TextBody("<html>Bad Gateway</html>"))
LongTextResponse == Http(200, TextBody(LongPage))
BinaryResponse == Http(200, BinaryBody)
BadContentResponse ==
    Http(200, JsonBody(Obj("candidates", JList(<<Obj("content", JList(<<JStr("oops")>>))>>))))
BadPartResponse == Http(200, JsonBody(ListContent(JList(<<Obj("text", JNum(7))>>))))
BadCandidatesResponse == Http(200, JsonBody(Obj("candidates", JNum(5))))

\* the responses the service is made to give, by name
ResponseOf(name) ==
    CASE name = "hello" -> HelloResponse
      [] name = "two_parts" -> TwoPartResponse
      [] name = "mapping" -> MappingResponse
      [] name = "string" -> StringResponse
      [] name = "top_level" -> TopLevelResponse
      [] name = "two_fields" -> TwoFieldResponse
      [] name = "no_parts" -> NoPartsResponse
      [] name = "array" -> ArrayResponse
      [] name = "quota" -> QuotaResponse
      [] name = "server_error" -> ServerErrorResponse
      [] name = "gateway" -> GatewayResponse
      [] name = "long_text" -> LongTextResponse
      [] name = "binary" -> BinaryResponse
      [] name = "bad_content" -> BadContentResponse
      [] name = "bad_part" -> BadPartResponse
      [] name = "bad_candidates" -> BadCandidatesResponse
      [] name = "connection_failed" -> ConnectionFailed
      [] OTHER -> TimedOut

\* responses whose JSON follows one of the documented shapes
ShapedResponses ==
    {"hello", "two_parts", "mapping", "string", "top_level", "two_fields", "no_parts", "array"}

\* responses that make the parsing code raise
BrokenResponses == {"binary", "bad_content", "bad_part", "bad_candidates"}

Responses ==
    ShapedResponses \cup BrokenResponses
    \cup {"timed_out", "connection_failed", "quota", "server_error", "gateway", "long_text"}

\* what a call gave its caller: the exception that got out, or the type and
\* the text of the value returned
Outcome(r) ==
    [exc |-> r.exc, type |-> r.val.t,
     text |-> IF r.val.t = "str" THEN r.val.v ELSE Repr(r.val)]

\* the client: the free slots of its semaphore, and per caller of
\* generate_fix where the call is, how many HTTP requests it has sent, the
\* response it got and what it returned
Callers == {"h1", "h2", "h3"}

IdleCall == [pc |-> "idle", posts |-> 0, response |-> "none", result |-> Outcome(Ret(JNone))]

IdleClient == [permits |-> MAX_CONCURRENCY, made |-> 0, call |-> [k \in Callers |-> IdleCall]]

\* a semaphore that never blocks
can_acquire_always(permits) == TRUE

\* asyncio.Semaphore.acquire returns at once only while the value is positive
can_acquire(permits) == permits > 0

\* a slot that is given back only when the request brought a response
release_on_response(permits, response) == IF response \in {"timed_out", "connection_failed"} THEN permits ELSE permits + 1

\* leaving  async with self._semaphore  gives the slot back, whatever
\* _call_api returned or raised
release(permits, response) == permits + 1

----------------------------------------------------------------------------
(* The run of one handler.  A handler is a function from the state record  *)
(* S before it to the state record after it; S.resp collects the replies   *)
(* it sends to the caller and S.raised tells whether an exception escaped. *)
(* flt names the platform call that fails in this run: call number flt.at  *)
(* raises, and with flt.persist every later call raises too.               *)

NoFault == [at |-> 0, persist |-> FALSE]

Faults(sites) == IF flaky THEN {NoFault} \cup [at : sites, persist : BOOLEAN] ELSE {NoFault}

Fails(flt, site) == flt.at > 0 /\ (site = flt.at \/ (flt.persist /\ site > flt.at))

\* the error report of an except block runs after every other call
ERR_SITE == 9

Cur ==
    [stateFile |-> stateFile, historyFile |-> historyFile, usageFile |-> usageFile,
     fixesFile |-> fixesFile, nextId |-> nextId, chans |-> chans, posted |-> posted,
     panels |-> panels, msgs |-> msgs, aiCalls |-> aiCalls, logged |-> logged,
     lastSet |-> lastSet, resp |-> << >>, raised |-> FALSE, added |-> << >>,
     tracked |-> << >>]

Reply(S, via, text, ephemeral, ok) ==
    [S EXCEPT !.resp = Append(@, [via |-> via, text |-> text,
                                  ephemeral |-> ephemeral, ok |-> ok])]

\* a post that thread.history does not show
Post_unseen(S, c, kind) == [S EXCEPT !.msgs = Append(@, [chan |-> c, kind |-> kind, at |-> now])]

\* a message that everyone in channel c can see
Post(S, c, kind) ==
    [S EXCEPT !.msgs = Append(@, [chan |-> c, kind |-> kind, at |-> now]),
              !.chans[c].lastMsg = now]

PostWebhook(S, kind) ==
    [S EXCEPT !.msgs = Append(@, [chan |-> BACKUP_WEBHOOK_URL, kind |-> kind, at |-> now])]

\* interaction.response.send_message / interaction.followup.send
Respond(S, c, via, text, ephemeral, flt, site) ==
    IF Fails(flt, site) THEN Reply(S, via, text, ephemeral, FALSE)
    ELSE IF ephemeral THEN Reply(S, via, text, TRUE, TRUE)
    ELSE Post(Reply(S, via, text, FALSE, TRUE), c, text)

\* try: send_message(text, ephemeral=True) except: pass
Refuse(S, text, flt) == Reply(S, "send_message", text, TRUE, ~Fails(flt, 1))

Defer(S, ephemeral, flt) == Reply(S, "defer", "", ephemeral, ~Fails(flt, 1))

\* except Exception as e: await interaction.followup.send(error, ephemeral=True)
ReportError(S, flt) ==
    IF Fails(flt, ERR_SITE)
    THEN [Reply(S, "followup", "Error", TRUE, FALSE) EXCEPT !.raised = TRUE]
    ELSE Reply(S, "followup", "Error", TRUE, TRUE)

\* the same inside try: ... except: pass
ReportErrorQuietly(S, flt) == Reply(S, "followup", "Error", TRUE, ~Fails(flt, ERR_SITE))

Log(S, action_type, user, details, channel) ==
    [S EXCEPT !.historyFile = log_action(@, now, action_type, user, details, channel),
              !.logged = Append(@, HistoryEntry(now, action_type, user, details, channel))]

\* S.added records the arguments of the call
AddFix(S, source, thread_id, thread_name, problem_summary, fix_text, confidence) ==
    [S EXCEPT !.fixesFile = add_fix(@, S.nextId, now, source, thread_id, thread_name,
                                    problem_summary, fix_text, confidence),
              !.nextId = @ + 1,
              !.added = Append(@, [source |-> source, thread_id |-> thread_id,
                                   thread_name |-> thread_name,
                                   problem_summary |-> problem_summary,
                                   fix |-> fix_text, confidence |-> confidence])]

\* a call that is tracked only when the AI gave an answer
AskAI_success_only(S, prompt, ai) ==
    IF ai = AI_FAILED THEN [S EXCEPT !.aiCalls = @ + 1]
    ELSE [S EXCEPT !.aiCalls = @ + 1,
                   !.usageFile = track_request(@, now, Len(prompt), Len(ai)),
                   !.tracked = Append(@, <<Len(prompt), Len(ai)>>)]

\* ai_response = await client.ai_client.generate_fix(prompt)
\* api_usage.track_request(prompt, ai_response)
\* S.tracked records the arguments of the track_request call
AskAI(S, prompt, ai) ==
    [S EXCEPT !.aiCalls = @ + 1,
              !.usageFile = track_request(@, now, Len(prompt), Len(ai)),
              !.tracked = Append(@, <<Len(prompt), Len(ai)>>)]

NoAnalysis == [state |-> "none", text |-> "", conf |-> 0]

----------------------------------------------------------------------------
(* modules/fix_store.py: similarity search *)

\* " ".join(tags)
RECURSIVE JoinTags(_, _)
JoinTags(tags, i) ==
    IF i > Len(tags) THEN ""
    ELSE IF i = Len(tags) THEN tags[i]
    ELSE tags[i] \o " " \o JoinTags(tags, i + 1)

\* the tokens of text.split()
Split(text) ==
    LET Blank(i) == SubSeq(text, i, i) = " "
    IN {SubSeq(text, i, j) :
          <<i, j>> \in {w \in (1..Len(text)) \X (1..Len(text)) :
                          /\ w[1] <= w[2]
                          /\ \A m \in w[1]..w[2] : ~Blank(m)
                          /\ w[1] = 1 \/ Blank(w[1] - 1)
                          /\ w[2] = Len(text) \/ Blank(w[2] + 1)}}

\* a search that goes on after k matches and returns them all
get_similar_fixes_all(file, query, k) == SelectSeq(load_fixes(file), LAMBDA f : Occurs(Lower(query), Lower(f.thread_name)))

RECURSIVE SimilarScan(_, _, _, _, _)
SimilarScan(fixes, i, ql, k, results) ==
    IF i > Len(fixes) THEN results
    ELSE LET f == fixes[i]
             title == Lower(f.thread_name)
             tags == Lower(JoinTags(f.tags, 1))
             hit == Occurs(ql, title) \/ \E t \in Split(tags) : Occurs(ql, t)
             r == IF hit THEN Append(results, f) ELSE results
         IN IF Len(r) >= k THEN r ELSE SimilarScan(fixes, i + 1, ql, k, r)

\* results[:k] of a k that is not negative
get_similar_fixes(file, query, k) ==
    LET results == SimilarScan(load_fixes(file), 1, Lower(query), k, << >>)
    IN SubSeq(results, 1, IF Len(results) < k THEN Len(results) ELSE k)

RECURSIVE JoinFixes(_, _)
JoinFixes(fixes, i) ==
    IF i > Len(fixes) THEN ""
    ELSE fixes[i].problem_summary \o fixes[i].fix \o JoinFixes(fixes, i + 1)

----------------------------------------------------------------------------
(* The feature toggle panel, bot.py: ToggleView *)

\* a panel that leaves the kill switch out
setup_buttons_without_bot(file, mode) == {f \in DOMAIN get_all_states(file) \ {"bot"} : IF mode = "enable" THEN ~get_all_states(file)[f] ELSE get_all_states(file)[f]}

\* the buttons setup_buttons adds for a mode
setup_buttons(file, mode) ==
    LET features == get_all_states(file)
    IN {f \in DOMAIN features : IF mode = "enable" THEN ~features[f] ELSE features[f]}

ClosedPanel == [open |-> FALSE, buttons |-> {}]

\* ToggleView.create_callback(feature_name).button_callback
button_callback(S, mode, feature_name, u, c, flt) ==
    IF ~can_use_admin_only(u)
    THEN IF Fails(flt, 1)
         THEN [Reply(S, "send_message", "Only admins can toggle features.", TRUE, FALSE)
                  EXCEPT !.raised = TRUE]
         ELSE Reply(S, "send_message", "Only admins can toggle features.", TRUE, TRUE)
    ELSE
    LET value == (mode = "enable")
        S1 == [S EXCEPT !.stateFile = IF value THEN enable(@, feature_name)
                                               ELSE disable(@, feature_name),
                        !.lastSet = Put(@, feature_name, value)]
        notice == IF value THEN "enabled" ELSE "disabled"
    IN IF Fails(flt, 1)
       THEN ReportError(Reply(S1, "send_message", notice, FALSE, FALSE), flt)
       ELSE LET S2 == Post(Reply(S1, "send_message", notice, FALSE, TRUE), c, notice)
                S3 == Log(S2, IF value THEN "enable" ELSE "disable", u,
                          (IF value THEN "Enabled: " ELSE "Disabled: ") \o feature_name,
                          "System")
            IN IF Fails(flt, 2)
               \* the interaction was answered already: the error reply raises
               THEN [Reply(S3, "send_message", "Error", TRUE, FALSE) EXCEPT !.raised = TRUE]
               ELSE [S3 EXCEPT !.panels[mode] =
                         [open |-> TRUE, buttons |-> setup_buttons(S3.stateFile, mode)]]

\* enable_command / disable_command
panel_command(S, mode, u, c, flt) ==
    IF ~can_use_admin_only(u) THEN Refuse(S, "Only admins can use this command.", flt)
    ELSE IF Fails(flt, 1) THEN Defer(S, FALSE, flt)
    ELSE
    LET S1 == Defer(S, FALSE, flt)
        offered == setup_buttons(S1.stateFile, mode)
    IN IF offered = {}
       THEN IF Fails(flt, 3)
            THEN ReportError(Reply(S1, "followup", "nothing to toggle", FALSE, FALSE), flt)
            ELSE Respond(S1, c, "followup", "nothing to toggle", FALSE, flt, 3)
       ELSE IF Fails(flt, 3)
            THEN ReportError(Reply(S1, "followup", "panel", FALSE, FALSE), flt)
            ELSE Log([Respond(S1, c, "followup", "panel", FALSE, flt, 3)
                         EXCEPT !.panels[mode] = [open |-> TRUE, buttons |-> offered]],
                     mode \o "_menu", u, "Opened " \o mode \o " menu", "System")

status_command(S, u, c, flt) ==
    IF Fails(flt, 1) THEN Defer(S, FALSE, flt)
    ELSE LET S1 == Defer(S, FALSE, flt)
         IN IF Fails(flt, 3)
            THEN ReportError(Reply(S1, "followup", "status", FALSE, FALSE), flt)
            ELSE Log(Respond(S1, c, "followup", "status", FALSE, flt, 3),
                     "status", u, "Viewed bot status", "System")

----------------------------------------------------------------------------
(* Slash commands, bot.py *)

NO_PERMISSION == "You don't have permission to use this command."
DISABLED == "This command is currently disabled."

Gate(S, feature) == is_enabled(S.stateFile, "bot") /\ is_enabled(S.stateFile, feature)

Clamp(confidence) ==
    IF confidence < 0 THEN 0 ELSE IF confidence > 100 THEN 100 ELSE confidence

fix_command(S, u, c, problem, solution, confidence, flt) ==
    IF ~can_use_command(u) THEN Refuse(S, NO_PERMISSION, flt)
    ELSE IF ~Gate(S, "fix") THEN Refuse(S, DISABLED, flt)
    ELSE IF Fails(flt, 1) THEN Defer(S, TRUE, flt)
    ELSE
    LET S1 == AddFix(Defer(S, TRUE, flt), "manual", c, ChanName(c), problem, solution,
                     Clamp(confidence))
    IN IF Fails(flt, 3)
       THEN ReportError(Reply(S1, "followup", "Fix Saved", TRUE, FALSE), flt)
       ELSE Log(Respond(S1, c, "followup", "Fix Saved", TRUE, flt, 3),
                "manual_fix", u, "Added fix: " \o problem, ChanName(c))

AnalyzePrompt(S, c) ==
    "Analyze this support thread." \o ChanName(c) \o Transcript(c)
    \o (IF is_enabled(S.stateFile, "ocr") THEN OcrText(c) ELSE "")

analyze_command(S, u, c, ai, flt) ==
    IF ~can_use_command(u) THEN Refuse(S, NO_PERMISSION, flt)
    ELSE IF ~Gate(S, "analyze") THEN Refuse(S, DISABLED, flt)
    ELSE IF Fails(flt, 1) THEN Defer(S, FALSE, flt)
    ELSE
    LET S1 == Defer(S, FALSE, flt)
    IN IF Fails(flt, 2) THEN ReportError(S1, flt)
       ELSE IF Transcript(c) = ""
       THEN IF Fails(flt, 3)
            THEN ReportError(Reply(S1, "followup", "No messages to analyze.", TRUE, FALSE), flt)
            ELSE Respond(S1, c, "followup", "No messages to analyze.", TRUE, flt, 3)
       ELSE
       LET S2 == AskAI(S1, AnalyzePrompt(S1, c), ai)
           text == strip_markdown_embeds(ai)
           confidence == confidence_heuristic(text)
       IN IF Fails(flt, 3)
          THEN ReportError(Reply(S2, "followup", "analysis", FALSE, FALSE), flt)
          ELSE
          LET S3 == Respond(S2, c, "followup", "analysis", FALSE, flt, 3)
              S4 == IF has_admin_role(u)
                    THEN [S3 EXCEPT !.chans[c].analysisMsg =
                              [state |-> "active", text |-> text, conf |-> confidence]]
                    ELSE S3
          IN Log(S4, "analyze", u, "Analyzed thread: " \o ChanName(c), c)

search_command(S, u, c, query, flt) ==
    IF ~can_use_command(u) THEN Refuse(S, NO_PERMISSION, flt)
    ELSE IF ~Gate(S, "search") THEN Refuse(S, DISABLED, flt)
    ELSE IF Fails(flt, 1) THEN Defer(S, TRUE, flt)
    ELSE
    LET S1 == Defer(S, TRUE, flt)
        results == get_similar_fixes(S1.fixesFile, query, 5)
        text == IF results = << >> THEN "No fixes found" ELSE "Search Results"
    IN IF Fails(flt, 3) THEN ReportError(Reply(S1, "followup", text, TRUE, FALSE), flt)
       ELSE IF results = << >> THEN Respond(S1, c, "followup", text, TRUE, flt, 3)
       ELSE Log(Respond(S1, c, "followup", text, TRUE, flt, 3),
                "search", u, "Searched for: " \o query, ChanName(c))

say_command(S, u, c, message, ai_enhance, ai, flt) ==
    IF ~can_use_command(u) THEN Refuse(S, NO_PERMISSION, flt)
    ELSE IF ~Gate(S, "say") THEN Refuse(S, DISABLED, flt)
    ELSE IF Fails(flt, 1) THEN Defer(S, TRUE, flt)
    ELSE
    LET S1 == Defer(S, TRUE, flt)
        S2 == IF ai_enhance
              THEN AskAI(S1, "Rewrite this message professionally:" \o message, ai)
              ELSE S1
    IN IF Fails(flt, 2) THEN ReportError(S2, flt)
       ELSE LET S3 == Post(S2, c, "say")
            IN IF Fails(flt, 3)
               THEN ReportError(Reply(S3, "followup", "Message sent!", TRUE, FALSE), flt)
               ELSE Log(Respond(S3, c, "followup", "Message sent!", TRUE, flt, 3),
                        "say", u, "Sent message: " \o message, ChanName(c))

ask_command(S, u, c, question, ai, flt) ==
    IF ~can_use_command(u) THEN Refuse(S, NO_PERMISSION, flt)
    ELSE IF ~Gate(S, "ask") THEN Refuse(S, DISABLED, flt)
    ELSE IF Fails(flt, 1) THEN Defer(S, FALSE, flt)
    ELSE
    LET S1 == AskAI(Defer(S, FALSE, flt), "Question: " \o question, ai)
    IN IF Fails(flt, 3)
       THEN ReportError(Reply(S1, "followup", "AI Response", FALSE, FALSE), flt)
       ELSE Log(Respond(S1, c, "followup", "AI Response", FALSE, flt, 3),
                "ask", u, "Asked: " \o question, ChanName(c))

backup_command(S, u, c, flt) ==
    IF ~can_use_admin_only(u) THEN Refuse(S, "Only admins can use this command.", flt)
    ELSE IF Fails(flt, 1) THEN Defer(S, TRUE, flt)
    ELSE
    LET S1 == Defer(S, TRUE, flt)
    IN IF Fails(flt, 2) THEN ReportError(S1, flt)
       ELSE LET S2 == PostWebhook(S1, "backup")
            IN IF Fails(flt, 3)
               THEN ReportError(Reply(S2, "followup", "Backed up", TRUE, FALSE), flt)
               ELSE Log(Respond(S2, c, "followup", "Backed up", TRUE, flt, 3),
                        "backup", u, "Backed up fixes", "Webhook")

stats_command(S, u, c, flt) ==
    IF ~can_use_command(u) THEN Refuse(S, NO_PERMISSION, flt)
    ELSE IF ~Gate(S, "stats") THEN Refuse(S, DISABLED, flt)
    ELSE IF Fails(flt, 1) THEN Defer(S, TRUE, flt)
    ELSE LET S1 == Defer(S, TRUE, flt)
         IN IF Fails(flt, 3)
            THEN ReportError(Reply(S1, "followup", "Bot Statistics", TRUE, FALSE), flt)
            ELSE Respond(S1, c, "followup", "Bot Statistics", TRUE, flt, 3)

mark_for_review_command(S, u, c, flt) ==
    IF ~can_use_command(u) THEN Refuse(S, NO_PERMISSION, flt)
    ELSE IF c \notin Threads THEN Refuse(S, "This command can only be used in threads.", flt)
    ELSE IF Fails(flt, 1) THEN Defer(S, FALSE, flt)
    ELSE
    LET S1 == Defer(S, FALSE, flt)
    IN IF ~Gate(S1, "mark_for_review")
       THEN Reply(S1, "followup", DISABLED, TRUE, ~Fails(flt, 3))
       ELSE IF ThreadOwner(c) = "None"
       THEN IF Fails(flt, 3)
            THEN ReportError(Reply(S1, "followup", "Could not find the thread owner.",
                                   TRUE, FALSE), flt)
            ELSE Respond(S1, c, "followup", "Could not find the thread owner.", TRUE, flt, 3)
       ELSE IF Fails(flt, 2) THEN ReportError(S1, flt)
       ELSE
       LET S2 == [Post(S1, c, "review_buttons") EXCEPT !.chans[c].reviewBtn = TRUE]
       IN IF Fails(flt, 3)
          THEN ReportError(Reply(S2, "followup", "Review buttons posted", FALSE, FALSE), flt)
          ELSE Log(Respond(S2, c, "followup", "Review buttons posted", FALSE, flt, 3),
                   "mark_for_review", u, "Marked thread for review: " \o ChanName(c), c)

ClampLimit(limit) == IF limit < 1 THEN 1 ELSE IF limit > 50 THEN 50 ELSE limit

LimitText(limit) == IF ClampLimit(limit) = 1 THEN "1" ELSE IF ClampLimit(limit) = 50 THEN "50" ELSE "n"

history_command(S, u, c, limit, flt) ==
    IF ~can_use_command(u) THEN Refuse(S, NO_PERMISSION, flt)
    ELSE IF Fails(flt, 1) THEN Defer(S, TRUE, flt)
    ELSE
    LET S1 == Defer(S, TRUE, flt)
    IN IF ~Gate(S1, "history")
       THEN Reply(S1, "followup", DISABLED, TRUE, ~Fails(flt, 3))
       ELSE
       LET history == get_recent_history(S1.historyFile, ClampLimit(limit))
           text == IF history = << >> THEN "No history found." ELSE "Bot Action History"
       IN IF Fails(flt, 3) THEN ReportError(Reply(S1, "followup", text, TRUE, FALSE), flt)
          ELSE IF history = << >> THEN Respond(S1, c, "followup", text, TRUE, flt, 3)
          ELSE Log(Respond(S1, c, "followup", text, TRUE, flt, 3), "history", u,
                   "Viewed history (limit: " \o LimitText(limit) \o ")", "System")

maintenance_command(S, u, c, message, flt) ==
    IF ~has_admin_role(u) THEN Refuse(S, "You need admin permission to use this command.", flt)
    ELSE IF Fails(flt, 1) THEN ReportError(Defer(S, TRUE, flt), flt)
    ELSE
    LET S1 == Defer(S, TRUE, flt)
    IN IF Fails(flt, 2) THEN ReportError(S1, flt)
       ELSE LET S2 == PostWebhook(S1, "maintenance")
            IN IF Fails(flt, 3)
               THEN ReportError(Reply(S2, "followup", "Maintenance announcement sent",
                                      TRUE, FALSE), flt)
               ELSE Log(Respond(S2, c, "followup", "Maintenance announcement sent",
                                TRUE, flt, 3),
                        "maintenance", u, "Maintenance: " \o message, "Webhook")

reload_command(S, u, c, flt) ==
    IF ~has_admin_role(u) THEN Refuse(S, "You need admin permission to use this command.", flt)
    ELSE IF Fails(flt, 1) THEN Reply(S, "send_message", "Reloading commands...", TRUE, FALSE)
    ELSE
    LET S1 == Reply(S, "send_message", "Reloading commands...", TRUE, TRUE)
    IN IF Fails(flt, 2) \/ Fails(flt, 3)
       THEN Reply(S1, "edit_original_response", "Error", TRUE, ~Fails(flt, ERR_SITE))
       ELSE Log(Reply(S1, "edit_original_response", "Commands reloaded!", TRUE, TRUE),
                "reload", u, "Reloaded bot commands", "System")

----------------------------------------------------------------------------
(* Button handlers, bot.py *)

FixPrompt(S, c) ==
    "You are a technical support expert." \o ChanName(c) \o Transcript(c)
    \o (IF is_enabled(S.stateFile, "ocr") THEN OcrText(c) ELSE "")
    \o JoinFixes(get_similar_fixes(S.fixesFile, ChanName(c), 5), 1)

handle_generate_fix_button(S, u, c, ai, flt) ==
    IF ~is_enabled(S.stateFile, "bot") THEN Refuse(S, "Bot is currently disabled.", flt)
    ELSE IF ~(has_staff_role(u) \/ has_admin_role(u)) /\ ~is_thread_owner(u, c)
    THEN Refuse(S, "Only staff or the thread creator can use this button.", flt)
    ELSE IF Fails(flt, 1) THEN ReportErrorQuietly(Defer(S, FALSE, flt), flt)
    ELSE
    LET S1 == Defer(S, FALSE, flt)
    IN IF Fails(flt, 2) THEN ReportErrorQuietly(S1, flt)
       ELSE IF Transcript(c) = ""
       THEN IF Fails(flt, 3)
            THEN ReportErrorQuietly(Reply(S1, "followup", "No messages found.", TRUE, FALSE), flt)
            ELSE Respond(S1, c, "followup", "No messages found.", TRUE, flt, 3)
       ELSE
       LET thread_title == ChanName(c)
           trained_answer == get_trained_response(thread_title, Transcript(c))
           S2 == IF trained_answer # "None" THEN S1 ELSE AskAI(S1, FixPrompt(S1, c), ai)
           answer == IF trained_answer # "None" THEN trained_answer ELSE ai
           confidence == IF trained_answer # "None" THEN 95 ELSE confidence_heuristic(ai)
           text == strip_markdown_embeds(answer)
           S3 == AddFix(S2, "ai_button", c, thread_title, thread_title, text, confidence)
       IN IF Fails(flt, 3)
          THEN ReportErrorQuietly(Reply(S3, "followup", "AI-Generated Solution", FALSE, FALSE), flt)
          ELSE
          LET S4 == [Respond(S3, c, "followup", "AI-Generated Solution", FALSE, flt, 3)
                        EXCEPT !.chans[c].feedbackBtn = "active"]
              S5 == IF Fails(flt, 4) THEN S4 ELSE [S4 EXCEPT !.chans[c].fixBtn = "disabled"]
          IN Log(S5, "generate_fix_button", u,
                 "AI fix generated in thread: " \o thread_title, c)

handle_feedback_button(S, u, c, flt) ==
    IF Fails(flt, 1) THEN Defer(S, TRUE, flt)
    ELSE
    \* "helpful" occurs in both custom ids, feedback_helpful_ and feedback_not_helpful_
    LET S1 == Log(Defer(S, TRUE, flt), "feedback", u, "Feedback: helpful", c)
    IN IF Fails(flt, 3)
       THEN Reply(S1, "followup", "Thank you for your feedback!", TRUE, FALSE)
       ELSE LET S2 == Respond(S1, c, "followup", "Thank you for your feedback!", TRUE, flt, 3)
            IN IF Fails(flt, 4) THEN S2 ELSE [S2 EXCEPT !.chans[c].feedbackBtn = "disabled"]

ResolvedTags(c) == {tag \in AvailableTags(ThreadParent(c)) : LowerTag(tag) = "resolved"}

SolvedPrompt(S, c) ==
    "Analyze this SOLVED support thread." \o ChanName(c) \o Transcript(c)
    \o (IF is_enabled(S.stateFile, "ocr") THEN OcrText(c) ELSE "")

\* the auto-analysis block of handle_solved_button, inside its own try / except
auto_analyze_solved(S, c, ai, flt) ==
    IF ~is_enabled(S.stateFile, "auto_analyze_solved") THEN S
    ELSE IF Fails(flt, 4) THEN S
    ELSE IF Transcript(c) = "" THEN S
    ELSE
    LET S1 == AskAI(S, SolvedPrompt(S, c), ai)
        text == strip_markdown_embeds(ai)
    IN IF Fails(flt, 5) THEN S1
       ELSE Log([Post(S1, c, "auto_analysis") EXCEPT !.chans[c].solvedMsg =
                     [state |-> "active", text |-> text,
                      conf |-> confidence_heuristic(text)]],
                "auto_analyze_solved", "System",
                "Auto-analyzed solved thread: " \o ChanName(c), c)

handle_solved_button(S, u, c, ai, flt) ==
    IF ~can_use_command(u) /\ ~is_thread_owner(u, c)
    THEN Refuse(S, "Only staff or the thread creator can mark this as solved.", flt)
    ELSE IF Fails(flt, 1) THEN Defer(S, FALSE, flt)
    ELSE
    LET S1 == Defer(S, FALSE, flt)
    IN IF c \notin Threads \/ Fails(flt, 2) THEN S1
       ELSE
       LET S2 == [S1 EXCEPT !.chans[c].locked = TRUE,
                            !.chans[c].tags = IF ResolvedTags(c) # {}
                                              THEN ResolvedTags(c) ELSE @]
       IN IF Fails(flt, 3)
          THEN Reply(S2, "followup", "Thread marked as solved!", FALSE, FALSE)
          ELSE Log(auto_analyze_solved(
                       Respond(S2, c, "followup", "Thread marked as solved!", FALSE, flt, 3),
                       c, ai, flt),
                   "mark_solved", u, "Thread marked as solved: " \o ChanName(c), c)

handle_unsolved_button(S, u, c, flt) ==
    IF ~can_use_command(u) /\ ~is_thread_owner(u, c)
    THEN Refuse(S, "Only staff or the thread creator can mark this as unsolved.", flt)
    ELSE IF Fails(flt, 1)
    THEN Reply(S, "send_message", "Thread marked as unsolved.", FALSE, FALSE)
    ELSE
    LET S1 == Respond(S, c, "send_message", "Thread marked as unsolved.", FALSE, flt, 1)
    IN IF SUPPORT_ROLE_ID = "" \/ Fails(flt, 2) THEN S1
       ELSE Log(Post(S1, c, "support_ping"), "mark_unsolved", u,
                "Thread marked as unsolved: " \o ChanName(c), c)

\* handle_save_analysis_button and handle_save_solved_analysis_button
save_button(S, u, c, slot, allowed, source, label, action_type, details, flt) ==
    IF ~allowed THEN Refuse(S, "Only " \o label \o " can save analysis to the database.", flt)
    ELSE IF Fails(flt, 1) THEN Defer(S, TRUE, flt)
    ELSE
    LET shown == S.chans[c][slot]
        S1 == AddFix(Defer(S, TRUE, flt), source, c, ChanName(c),
                     details \o ChanName(c), shown.text, shown.conf)
    IN IF Fails(flt, 3)
       THEN ReportError(Reply(S1, "followup", "Analysis saved", TRUE, FALSE), flt)
       ELSE LET S2 == Respond(S1, c, "followup", "Analysis saved", TRUE, flt, 3)
            IN IF Fails(flt, 4) THEN ReportError(S2, flt)
               ELSE Log([S2 EXCEPT !.chans[c][slot].state = "saved"],
                        action_type, u, "Saved analysis for: " \o ChanName(c), c)

handle_save_analysis_button(S, u, c, flt) ==
    save_button(S, u, c, "analysisMsg", has_admin_role(u), "analyze_command", "admins",
                "save_analysis", "Analysis: ", flt)

handle_save_solved_analysis_button(S, u, c, flt) ==
    save_button(S, u, c, "solvedMsg", can_use_command(u), "solved_auto_analysis", "staff",
                "save_solved_analysis", "Solved: ", flt)

----------------------------------------------------------------------------
(* Events and background tasks, bot.py and modules/thread_manager.py *)

INACTIVITY_HOURS == 12

on_ready(S) == Log(S, "bot_start", "System", "Bot started successfully", "None")

\* a welcome in every forum
handle_new_thread_any_forum(S, c, flt) == IF ~is_enabled(S.stateFile, "autoresponse") \/ Fails(flt, 1) THEN S ELSE Log([Post(S, c, "welcome") EXCEPT !.chans[c].fixBtn = "active"], "thread_create", "System", "Welcome message posted: " \o ChanName(c), c)

handle_new_thread(S, c, flt) ==
    IF ~is_enabled(S.stateFile, "autoresponse") THEN S
    ELSE IF ThreadParent(c) # SUPPORT_FORUM_ID THEN S
    ELSE IF Fails(flt, 1) THEN S
    ELSE Log([Post(S, c, "welcome") EXCEPT !.chans[c].fixBtn = "active"],
             "thread_create", "System", "Welcome message posted: " \o ChanName(c), c)

\* the exception of thread.send is caught inside post_inactivity_buttons;
\* site is the position of the thread in the pass
post_inactivity_buttons(S, c, flt, site) ==
    IF Fails(flt, site) THEN S
    ELSE Log([Post(S, c, "inactivity_check") EXCEPT !.chans[c].reviewBtn = TRUE],
             "inactivity_check", "System",
             "Posted review buttons in: " \o ChanName(c), c)

\* a check that trusts the nudge marker alone and never reads the last message
check_thread_inactivity_by_marker(S, c, t, flt, site) ==
    LET th == S.chans[c]
    IN IF th.locked \/ th.archived THEN S
       ELSE IF c \in DOMAIN S.posted /\ t - S.posted[c] < INACTIVITY_HOURS THEN S
       ELSE [post_inactivity_buttons(S, c, flt, site) EXCEPT !.posted = Put(S.posted, c, t)]

\* a check that nudges from twelve hours of silence on
check_thread_inactivity_at_twelve(S, c, t, flt, site) == LET th == S.chans[c] IN IF th.locked \/ th.archived \/ (\E tag \in th.tags : LowerTag(tag) \in {"resolved", "solved", "closed"}) \/ th.lastMsg < 0 \/ ~(t - th.lastMsg >= INACTIVITY_HOURS) \/ (c \in DOMAIN S.posted /\ t - S.posted[c] < INACTIVITY_HOURS) THEN S ELSE [post_inactivity_buttons(S, c, flt, site) EXCEPT !.posted = Put(S.posted, c, t)]

\* the thread's state is read before the pass posts in it
check_thread_inactivity(S, c, t, flt, site) ==
    LET th == S.chans[c]
    IN IF th.locked \/ th.archived THEN S
       ELSE IF \E tag \in th.tags : LowerTag(tag) \in {"resolved", "solved", "closed"} THEN S
       ELSE IF th.lastMsg < 0 THEN S
       ELSE IF ~(t - th.lastMsg > INACTIVITY_HOURS) THEN S
       ELSE IF c \in DOMAIN S.posted /\ t - S.posted[c] < INACTIVITY_HOURS THEN S
       ELSE [post_inactivity_buttons(S, c, flt, site) EXCEPT !.posted = Put(S.posted, c, t)]

\* channel.archived_threads(limit=100), then channel.threads
SweepOrder(S) ==
    LET forum == {c \in Threads : ThreadParent(c) = SUPPORT_FORUM_ID}
        Sorted(set) == IF set = {} THEN << >>
                       ELSE IF "t1" \in set /\ "t2" \in set THEN <<"t1", "t2">>
                       ELSE IF "t1" \in set THEN <<"t1">> ELSE <<"t2">>
    IN Sorted({c \in forum : S.chans[c].archived}) \o Sorted(forum)

RECURSIVE SweepFrom(_, _, _, _, _)
SweepFrom(S, order, i, t, flt) ==
    IF i > Len(order) THEN S
    ELSE SweepFrom(check_thread_inactivity(S, order[i], t, flt, i), order, i + 1, t, flt)

\* a watcher that looks at the kill switch only
inactivity_watcher_bot_only(S, flt) == IF ~is_enabled(S.stateFile, "bot") THEN S ELSE SweepFrom(S, SweepOrder(S), 1, now, flt)

\* one iteration of the loop of inactivity_watcher
inactivity_watcher(S, flt) ==
    IF ~is_enabled(S.stateFile, "bot") \/ ~is_enabled(S.stateFile, "mark_for_review") THEN S
    ELSE SweepFrom(S, SweepOrder(S), 1, now, flt)

send_daily_report(S, flt) ==
    IF BACKUP_WEBHOOK_URL = "" \/ Fails(flt, 1) THEN S
    ELSE Log(PostWebhook(S, "daily_report"), "daily_report", "System",
             "Daily report sent", "Webhook")

\* handlers under way on the event loop; each runs one update of a store
Handlers == {"h1", "h2", "h3"}

StoreCalls == {"add_fix", "log_action", "track_request", "enable", "disable"}

StoreOf(call) ==
    CASE call = "add_fix" -> "fixes"
      [] call = "log_action" -> "history"
      [] call = "track_request" -> "usage"
      [] OTHER -> "state"

\* the feature each handler switches, so that no handler undoes another's update
FeatureOf(h) == CASE h = "h1" -> "ask" [] h = "h2" -> "say" [] OTHER -> "stats"

\* pc: idle, awaiting (suspended at the await before the store call), loaded
\* (inside the call, between its load and its save) and done; local is the
\* file as the load read it; seen are the handlers that were suspended then
IdleTask == [pc |-> "idle", call |-> "none", local |-> << >>, seen |-> {}]

NoTasks == [h \in Handlers |-> IdleTask]

\* an event loop that could switch handlers between any two statements
yields_anywhere(pc) == TRUE

\* a coroutine gives the loop to others only at an await: the store calls are
\* plain functions with no await between their load and their save
yields(pc) == pc # "loaded"

\* the loop can run a step of handler h
CanRun(h) == \A other \in Handlers \ {h} : yields(tasks[other].pc)

\* the files a save touches: the live file of a store and its .tmp file
Stores == {"fixes", "history", "usage", "state"}

LivePath(store) == store \o ".json"

\* a save that writes the live file directly
tmp_path_in_place(store) == LivePath(store)

\* tmp = FIXES_FILE + ".tmp"
tmp_path(store) == LivePath(store) \o ".tmp"

AbsentFile == [st |-> "absent", data |-> << >>]

\* a file whose writer has been stopped part-way: it does not parse
PartialFile == [st |-> "partial", data |-> << >>]

\* no save under way and no .tmp file left behind; pc is the position of
\* the save under way, old and new the live file before it and as it is to be
NoTmpFiles ==
    [store |-> "none", pc |-> "idle", old |-> << >>, new |-> << >>, saves |-> 0,
     tmp |-> [s \in Stores |-> AbsentFile]]

----------------------------------------------------------------------------
(* Initial states *)

Now0 == 13

NoOp == [op |-> "none", user |-> "None", chan |-> "None", resp |-> << >>,
         raised |-> FALSE, args |-> << >>, added |-> << >>, tracked |-> << >>]

Chan0(lastMsg, fixBtn, reviewBtn, pendingCreate) ==
    [locked |-> FALSE, archived |-> FALSE, tags |-> {}, lastMsg |-> lastMsg,
     fixBtn |-> fixBtn, reviewBtn |-> reviewBtn, feedbackBtn |-> "none",
     analysisMsg |-> NoAnalysis, solvedMsg |-> NoAnalysis,
     pendingCreate |-> pendingCreate]

\* t1 is an old support thread that was welcomed and nudged by an earlier run
\* of the bot, t2 a support thread that has just been created, t3 an old
\* thread of another forum
Chans0 ==
    [c \in Channels |->
        CASE c = "t1" -> Chan0(0, "active", TRUE, FALSE)
          [] c = "t2" -> Chan0(Now0, "none", FALSE, TRUE)
          [] c = "t3" -> Chan0(0, "none", FALSE, FALSE)
          [] OTHER    -> Chan0(-1, "none", FALSE, FALSE)]

\* what the checks of an operation compare its outcome with
Snapshot ==
    [stateFile |-> stateFile, historyFile |-> historyFile, usageFile |-> usageFile,
     fixesFile |-> fixesFile, aiCalls |-> aiCalls, msgs |-> msgs, chans |-> chans,
     panels |-> panels, posted |-> posted, logged |-> logged, now |-> now]

InitPlatform ==
    /\ now = Now0
    /\ nextId = 1
    /\ chans = Chans0
    /\ posted = EmptyMap
    /\ panels = [mode \in {"enable", "disable"} |-> ClosedPanel]
    /\ msgs = << >>
    /\ aiCalls = 0
    /\ last = NoOp
    /\ lastSet = EmptyMap
    /\ ai_client = IdleClient
    /\ tasks = NoTasks
    /\ tmpFiles = NoTmpFiles
    /\ steps = 0

FreshFiles(empty) == {Missing(empty), Corrupt(empty)}

\* a fix and the log entries an earlier run of the bot left behind
OldFix == FixEntry(0, 1, "manual", "t3", ChanName("t3"), "Old problem", "Old fix", 80)

OldHistory ==
    <<HistoryEntry(1, "manual_fix", "alice", "Added fix: Old problem", ChanName("t3")),
      HistoryEntry(2, "disable", "alice", "Disabled: bot", "System")>>

\* the files survive restarts: a new installation has none, a damaged one has
\* unparseable files, and a used one has what the earlier run wrote, here
\* with the bot switched off from the toggle panel
InitFiles ==
    \/ /\ stateFile = Missing(EmptyMap)
       /\ historyFile = Missing(<< >>)
       /\ fixesFile = Missing(<< >>)
    \/ /\ stateFile = Corrupt(EmptyMap)
       /\ historyFile = Corrupt(<< >>)
       /\ fixesFile = Corrupt(<< >>)
    \/ /\ stateFile = Ok(Put(DefaultState, "bot", FALSE))
       /\ historyFile = Ok(OldHistory)
       /\ fixesFile = Ok(<<OldFix>>)

InitBot ==
    /\ InitFiles
    /\ logged = load_history(historyFile)
    /\ usageFile = Missing(ZeroUsage)
    /\ InitPlatform
    /\ prev = Snapshot

Init == InitBot /\ flaky = FALSE

InitFaults == InitBot /\ flaky = TRUE

Commit(S, op, u, c, args) ==
    /\ stateFile' = S.stateFile
    /\ historyFile' = S.historyFile
    /\ usageFile' = S.usageFile
    /\ fixesFile' = S.fixesFile
    /\ nextId' = S.nextId
    /\ chans' = S.chans
    /\ posted' = S.posted
    /\ panels' = S.panels
    /\ msgs' = S.msgs
    /\ aiCalls' = S.aiCalls
    /\ logged' = S.logged
    /\ lastSet' = S.lastSet
    /\ last' = [op |-> op, user |-> u, chan |-> c, resp |-> S.resp,
                raised |-> S.raised, args |-> args, added |-> S.added,
                tracked |-> S.tracked]
    /\ prev' = Snapshot
    /\ steps' = steps + 1
    /\ UNCHANGED <<flaky, ai_client, tasks, tmpFiles>>

----------------------------------------------------------------------------
(* The bot: every interaction, event and background iteration *)

StepBound == IF flaky THEN MaxFaultSteps ELSE MaxSteps

CommandChannels == {"t1", "general"}

PressToggle ==
    /\ steps < StepBound
    /\ \E mode \in {"enable", "disable"}, u \in Users, flt \in Faults({1, 2}) :
         /\ panels[mode].open
         /\ \E f \in panels[mode].buttons :
              Commit(button_callback(Cur, mode, f, u, "general", flt),
                     "toggle", u, "general", <<mode, f>>)
    /\ now' = now

EnableCommand ==
    /\ steps < StepBound
    /\ \E u \in Users, flt \in Faults({1, 3}) :
         Commit(panel_command(Cur, "enable", u, "general", flt),
                "enable", u, "general", << >>)
    /\ now' = now

DisableCommand ==
    /\ steps < StepBound
    /\ \E u \in Users, flt \in Faults({1, 3}) :
         Commit(panel_command(Cur, "disable", u, "general", flt),
                "disable", u, "general", << >>)
    /\ now' = now

StatusCommand ==
    /\ steps < StepBound
    /\ \E u \in Users, flt \in Faults({1, 3}) :
         Commit(status_command(Cur, u, "general", flt), "status", u, "general", << >>)
    /\ now' = now

FixCommand ==
    /\ steps < StepBound
    /\ \E u \in Users, c \in CommandChannels, confidence \in {80, 150},
          flt \in Faults({1, 3}) :
         Commit(fix_command(Cur, u, c, "X", "Y", confidence, flt),
                "fix", u, c, <<"X", "Y", confidence>>)
    /\ now' = now

AnalyzeCommand ==
    /\ steps < StepBound
    /\ \E u \in Users, c \in Channels, ai \in AIReplies, flt \in Faults({1, 2, 3}) :
         Commit(analyze_command(Cur, u, c, ai, flt), "analyze", u, c, <<ai>>)
    /\ now' = now

SearchCommand ==
    /\ steps < StepBound
    /\ \E u \in Users, c \in CommandChannels, query \in {"install", "bot", "zzz"},
          flt \in Faults({1, 3}) :
         Commit(search_command(Cur, u, c, query, flt), "search", u, c, <<query>>)
    /\ now' = now

SayCommand ==
    /\ steps < StepBound
    /\ \E u \in Users, c \in CommandChannels, ai_enhance \in BOOLEAN, ai \in AIReplies,
          flt \in Faults({1, 2, 3}) :
         Commit(say_command(Cur, u, c, "hello", ai_enhance, ai, flt),
                "say", u, c, <<"hello", ai_enhance>>)
    /\ now' = now

AskCommand ==
    /\ steps < StepBound
    /\ \E u \in Users, c \in CommandChannels, ai \in AIReplies, flt \in Faults({1, 3}) :
         Commit(ask_command(Cur, u, c, "why?", ai, flt), "ask", u, c, <<"why?">>)
    /\ now' = now

BackupCommand ==
    /\ steps < StepBound
    /\ \E u \in Users, flt \in Faults({1, 2, 3}) :
         Commit(backup_command(Cur, u, "general", flt), "backup", u, "general", << >>)
    /\ now' = now

StatsCommand ==
    /\ steps < StepBound
    /\ \E u \in Users, flt \in Faults({1, 3}) :
         Commit(stats_command(Cur, u, "general", flt), "stats", u, "general", << >>)
    /\ now' = now

MarkForReviewCommand ==
    /\ steps < StepBound
    /\ \E u \in Users, c \in Channels, flt \in Faults({1, 2, 3}) :
         Commit(mark_for_review_command(Cur, u, c, flt), "mark_for_review", u, c, << >>)
    /\ now' = now

HistoryCommand ==
    /\ steps < StepBound
    /\ \E u \in Users, limit \in {0, 20}, flt \in Faults({1, 3}) :
         Commit(history_command(Cur, u, "general", limit, flt),
                "history", u, "general", <<limit>>)
    /\ now' = now

MaintenanceCommand ==
    /\ steps < StepBound
    /\ \E u \in Users, flt \in Faults({1, 2, 3}) :
         Commit(maintenance_command(Cur, u, "general", "upgrade", flt),
                "maintenance", u, "general", <<"upgrade">>)
    /\ now' = now

ReloadCommand ==
    /\ steps < StepBound
    /\ \E u \in Users, flt \in Faults({1, 2}) :
         Commit(reload_command(Cur, u, "general", flt), "reload", u, "general", << >>)
    /\ now' = now

PressGenerateFix ==
    /\ steps < StepBound
    /\ \E u \in Users, c \in Threads, ai \in AIReplies, flt \in Faults({1, 2, 3, 4}) :
         /\ chans[c].fixBtn = "active"
         /\ Commit(handle_generate_fix_button(Cur, u, c, ai, flt),
                   "generate_fix", u, c, <<ai>>)
    /\ now' = now

PressFeedback ==
    /\ steps < StepBound
    /\ \E u \in Users, c \in Threads, flt \in Faults({1, 3, 4}) :
         /\ chans[c].feedbackBtn = "active"
         /\ Commit(handle_feedback_button(Cur, u, c, flt), "feedback", u, c, << >>)
    /\ now' = now

PressSolved ==
    /\ steps < StepBound
    /\ \E u \in Users, c \in Threads, ai \in AIReplies, flt \in Faults({1, 2, 3, 4, 5}) :
         /\ chans[c].reviewBtn
         /\ Commit(handle_solved_button(Cur, u, c, ai, flt), "mark_solved", u, c, <<ai>>)
    /\ now' = now

PressUnsolved ==
    /\ steps < StepBound
    /\ \E u \in Users, c \in Threads, flt \in Faults({1, 2}) :
         /\ chans[c].reviewBtn
         /\ Commit(handle_unsolved_button(Cur, u, c, flt), "mark_unsolved", u, c, << >>)
    /\ now' = now

PressSaveAnalysis ==
    /\ steps < StepBound
    /\ \E u \in Users, c \in Channels, flt \in Faults({1, 3, 4}) :
         /\ chans[c].analysisMsg.state = "active"
         /\ Commit(handle_save_analysis_button(Cur, u, c, flt),
                   "save_analysis", u, c, << >>)
    /\ now' = now

PressSaveSolved ==
    /\ steps < StepBound
    /\ \E u \in Users, c \in Threads, flt \in Faults({1, 3, 4}) :
         /\ chans[c].solvedMsg.state = "active"
         /\ Commit(handle_save_solved_analysis_button(Cur, u, c, flt),
                   "save_solved", u, c, << >>)
    /\ now' = now

OnReady ==
    /\ steps < StepBound
    /\ Commit(on_ready(Cur), "on_ready", "System", "None", << >>)
    /\ now' = now

OnThreadCreate ==
    /\ steps < StepBound
    /\ \E c \in Threads, flt \in Faults({1}) :
         /\ chans[c].pendingCreate
         /\ Commit(handle_new_thread([Cur EXCEPT !.chans[c].pendingCreate = FALSE], c, flt),
                   "thread_create", "System", c, << >>)
    /\ now' = now

InactivitySweep ==
    /\ steps < StepBound
    /\ \E flt \in Faults({1, 2}) :
         Commit(inactivity_watcher(Cur, flt), "sweep", "System", "None", << >>)
    /\ now' = now

\* the report is sent at the next UTC midnight
DailyReport ==
    /\ steps < StepBound
    /\ \E flt \in Faults({1}) :
         Commit(send_daily_report(Cur, flt), "daily_report", "System", "None", << >>)
    /\ now' = ((now \div 24) + 1) * 24

Next ==
    \/ PressToggle \/ EnableCommand \/ DisableCommand \/ StatusCommand
    \/ FixCommand \/ AnalyzeCommand \/ SearchCommand \/ SayCommand \/ AskCommand
    \/ BackupCommand \/ StatsCommand \/ MarkForReviewCommand \/ HistoryCommand
    \/ MaintenanceCommand \/ ReloadCommand
    \/ PressGenerateFix \/ PressFeedback \/ PressSolved \/ PressUnsolved
    \/ PressSaveAnalysis \/ PressSaveSolved
    \/ OnReady \/ OnThreadCreate \/ InactivitySweep \/ DailyReport

Spec == Init /\ [][Next]_vars

SpecFaults == InitFaults /\ [][Next]_vars

----------------------------------------------------------------------------
(* The stores on their own: the calls of bot_state, bot_history and        *)
(* api_usage, made directly                                                *)

InitStores ==
    /\ InitPlatform
    /\ prev = Snapshot
    /\ flaky = FALSE

\* "beta" is a name no part of the program configures
ToggleNames == {"bot", "ask", "auto_analyze_solved", "beta"}

InitState ==
    /\ stateFile \in FreshFiles(EmptyMap)
    /\ historyFile = Missing(<< >>)
    /\ logged = << >>
    /\ usageFile = Missing(ZeroUsage)
    /\ fixesFile = Missing(<< >>)
    /\ InitStores

CallEnable ==
    /\ steps < MaxToggles
    /\ \E f \in ToggleNames :
         Commit([Cur EXCEPT !.stateFile = enable(@, f), !.lastSet = Put(@, f, TRUE)],
                "enable()", "System", "None", <<f>>)
    /\ now' = now

CallDisable ==
    /\ steps < MaxToggles
    /\ \E f \in ToggleNames :
         Commit([Cur EXCEPT !.stateFile = disable(@, f), !.lastSet = Put(@, f, FALSE)],
                "disable()", "System", "None", <<f>>)
    /\ now' = now

NextState == CallEnable \/ CallDisable

SpecState == InitState /\ [][NextState]_vars

\* n entries of earlier runs, the latest written at time 0
Prefill(n) ==
    [i \in 1..n |-> HistoryEntry(i - n, "bot_start", "System",
                                 "Bot started successfully", "None")]

InitHistory ==
    /\ stateFile = Missing(EmptyMap)
    /\ historyFile \in FreshFiles(<< >>)
                       \cup {Ok(Prefill(HISTORY_CAP - 1)), Ok(Prefill(HISTORY_CAP))}
    /\ logged = load_history(historyFile)
    /\ usageFile = Missing(ZeroUsage)
    /\ fixesFile = Missing(<< >>)
    /\ InitStores

CallLogAction ==
    /\ steps < MaxLogs
    /\ \E action_type \in {"ask", "manual_fix"}, u \in {"alice", "bob"} :
         Commit(Log(Cur, action_type, u, "details", "System"),
                "log_action", u, "None", <<action_type>>)
    /\ now' = now + 1

NextHistory == CallLogAction

SpecHistory == InitHistory /\ [][NextHistory]_vars

\* the ledger after one request of an earlier day
OldUsage == load_usage(track_request(Missing(ZeroUsage), 0, 8, 16))

InitUsage ==
    /\ stateFile = Missing(EmptyMap)
    /\ historyFile = Missing(<< >>)
    /\ logged = << >>
    /\ usageFile \in FreshFiles(ZeroUsage) \cup {Ok(OldUsage)}
    /\ fixesFile = Missing(<< >>)
    /\ InitStores

CallTrackRequest ==
    /\ steps < MaxTracks
    /\ \E input_chars \in {0, 8}, output_chars \in {0, 16} :
         Commit([Cur EXCEPT !.usageFile = track_request(@, now, input_chars, output_chars),
                            !.tracked = Append(@, <<input_chars, output_chars>>)],
                "track_request", "System", "None", <<input_chars, output_chars>>)
    /\ now' = now

\* a day passes
Tick ==
    /\ now < Now0 + 24 * MaxTicks
    /\ now' = now + 24
    /\ last' = [NoOp EXCEPT !.op = "tick"]
    /\ prev' = Snapshot
    /\ UNCHANGED <<stateFile, historyFile, usageFile, fixesFile, nextId, chans, posted,
                   panels, msgs, aiCalls, logged, lastSet, flaky, ai_client, tasks, tmpFiles,
                   steps>>

NextUsage == CallTrackRequest \/ Tick

SpecUsage == InitUsage /\ [][NextUsage]_vars

----------------------------------------------------------------------------
(* The AI client on its own: concurrent calls of generate_fix *)

OthersUnchangedByClient ==
    UNCHANGED <<stateFile, historyFile, usageFile, fixesFile, now, nextId, chans, posted,
                panels, msgs, aiCalls, last, logged, lastSet, prev, flaky, tasks, tmpFiles,
                steps>>

InitAI ==
    /\ stateFile = Missing(EmptyMap)
    /\ historyFile = Missing(<< >>)
    /\ logged = << >>
    /\ usageFile = Missing(ZeroUsage)
    /\ fixesFile = Missing(<< >>)
    /\ InitStores

\* a handler calls generate_fix and waits at  async with self._semaphore
StartGenerateFix ==
    /\ ai_client.made < MaxCalls
    /\ \E k \in Callers :
         /\ ai_client.call[k].pc = "idle"
         /\ ai_client' = [ai_client EXCEPT !.made = @ + 1,
                             !.call[k] = [IdleCall EXCEPT !.pc = "waiting"]]
    /\ OthersUnchangedByClient

\* the semaphore lets the caller in and _call_api posts the request
AcquireSlot ==
    /\ \E k \in Callers :
         /\ ai_client.call[k].pc = "waiting"
         /\ can_acquire(ai_client.permits)
         /\ ai_client' = [ai_client EXCEPT !.permits = @ - 1,
                             !.call[k].pc = "inflight",
                             !.call[k].posts = @ + 1]
    /\ OthersUnchangedByClient

\* what generate_fix returns for each response, worked out once
Results == [response \in Responses |-> Outcome(generate_fix(ResponseOf(response)))]

\* the request ends; _call_api returns and the semaphore is released
RequestEnds(responses) ==
    /\ \E k \in Callers, response \in responses :
         /\ ai_client.call[k].pc = "inflight"
         /\ ai_client' = [ai_client EXCEPT !.permits = release(@, response),
                             !.call[k].pc = "returned",
                             !.call[k].response = response,
                             !.call[k].result = Results[response]]
    /\ OthersUnchangedByClient

ReceiveResponse == RequestEnds(Responses)

\* the handler goes on with the string it got
UseResult ==
    /\ \E k \in Callers :
         /\ ai_client.call[k].pc = "returned"
         /\ ai_client' = [ai_client EXCEPT !.call[k] = IdleCall]
    /\ OthersUnchangedByClient

NextAI == StartGenerateFix \/ AcquireSlot \/ ReceiveResponse \/ UseResult

SpecAI == InitAI /\ [][NextAI]_vars

\* one response for each way out of _call_api: a parsed answer, a body that
\* is not JSON, a timeout, another failure
ExitPaths == {"hello", "gateway", "timed_out", "connection_failed"}

RequestReturns == RequestEnds(ExitPaths)

\* caller k is let in / the request of caller k ends
Acquires(k) ==
    AcquireSlot /\ ai_client.call[k].pc = "waiting" /\ ai_client'.call[k].pc = "inflight"

Returns(k) ==
    RequestReturns /\ ai_client.call[k].pc = "inflight" /\ ai_client'.call[k].pc = "returned"

NextSlots == StartGenerateFix \/ AcquireSlot \/ RequestReturns \/ UseResult

\* asyncio.Semaphore wakes its waiters first come first served, so a caller
\* that is waiting whenever a slot comes free is let in in the end (SF); a
\* request that was posted ends after at most the 60 seconds of its timeout
\* (WF)
SpecSlots ==
    /\ InitAI
    /\ [][NextSlots]_vars
    /\ \A k \in Callers : SF_vars(Acquires(k)) /\ WF_vars(Returns(k))

----------------------------------------------------------------------------
(* The inactivity watcher on its own: passes, time going by, members       *)
(* writing and the process being restarted                                 *)

ForumThreads == {c \in Threads : ThreadParent(c) = SUPPORT_FORUM_ID}

\* t1 as the watcher may find it
FoundThreads ==
    {Chans0["t1"],
     [Chans0["t1"] EXCEPT !.locked = TRUE],
     [Chans0["t1"] EXCEPT !.archived = TRUE],
     [Chans0["t1"] EXCEPT !.tags = {"Resolved"}],
     [Chans0["t1"] EXCEPT !.tags = {"Bug", "CLOSED"}],
     [Chans0["t1"] EXCEPT !.lastMsg = -1],
     [Chans0["t1"] EXCEPT !.tags = {"Bug"}]}

InitSweep ==
    /\ stateFile = Missing(EmptyMap)
    /\ historyFile = Missing(<< >>)
    /\ logged = << >>
    /\ usageFile = Missing(ZeroUsage)
    /\ fixesFile = Missing(<< >>)
    /\ now = Now0
    /\ nextId = 1
    /\ \E th \in FoundThreads : chans = [Chans0 EXCEPT !["t1"] = th]
    /\ posted = EmptyMap
    /\ panels = [mode \in {"enable", "disable"} |-> ClosedPanel]
    /\ msgs = << >>
    /\ aiCalls = 0
    /\ last = NoOp
    /\ lastSet = EmptyMap
    /\ ai_client = IdleClient
    /\ tasks = NoTasks
    /\ tmpFiles = NoTmpFiles
    /\ steps = 0
    /\ prev = Snapshot
    /\ flaky = FALSE

\* one iteration of the watcher's loop
SweepPass ==
    /\ steps < MaxSweepSteps
    /\ Commit(inactivity_watcher(Cur, NoFault), "sweep", "System", "None", << >>)
    /\ now' = now

\* the watcher sleeps, or the bot is down for a while
HoursPass ==
    /\ steps < MaxSweepSteps
    /\ \E h \in {6, 7} :
         /\ Commit(Cur, "wait", "System", "None", <<h>>)
         /\ now' = now + h

\* a member writes in a thread
MemberWrites ==
    /\ steps < MaxSweepSteps
    /\ \E c \in ForumThreads :
         /\ ~chans[c].locked
         /\ Commit([Cur EXCEPT !.chans[c].lastMsg = now], "message", ThreadOwnerId(c), c, << >>)
    /\ now' = now

\* the process starts again: ThreadManager.__init__ empties _posted_inactivity
Restart ==
    /\ steps < MaxSweepSteps
    /\ Commit([Cur EXCEPT !.posted = EmptyMap], "restart", "System", "None", << >>)
    /\ now' = now

NextSweep == SweepPass \/ HoursPass \/ MemberWrites \/ Restart

SpecSweep == InitSweep /\ [][NextSweep]_vars

----------------------------------------------------------------------------
(* Handlers racing on the stores *)

OthersUnchangedByStores ==
    UNCHANGED <<now, nextId, chans, posted, panels, msgs, aiCalls, last, logged, lastSet,
                prev, flaky, ai_client, steps>>

InitRace ==
    /\ stateFile = Missing(EmptyMap)
    /\ historyFile = Missing(<< >>)
    /\ logged = << >>
    /\ usageFile = Missing(ZeroUsage)
    /\ fixesFile = Missing(<< >>)
    /\ InitStores

FileOf(store) ==
    CASE store = "fixes" -> fixesFile
      [] store = "history" -> historyFile
      [] store = "usage" -> usageFile
      [] OTHER -> stateFile

\* the store call of handler h, applied to the file as it was loaded
Update(h, call, file) ==
    CASE call = "add_fix" ->
           add_fix(file, h, now, "manual", "t1", ChanName("t1"), "problem", "fix", 100)
      [] call = "log_action" -> log_action(file, now, "manual_fix", h, "Added fix", "t1")
      [] call = "track_request" -> track_request(file, now, 10, 20)
      [] call = "enable" -> enable(file, FeatureOf(h))
      [] OTHER -> disable(file, FeatureOf(h))

\* the platform delivers an event; the handler runs up to its first await
BeginHandler ==
    /\ \E h \in Handlers, call \in StoreCalls :
         /\ tasks[h].pc = "idle"
         /\ CanRun(h)
         /\ tasks' = [tasks EXCEPT ![h] = [IdleTask EXCEPT !.pc = "awaiting", !.call = call]]
    /\ UNCHANGED <<stateFile, historyFile, usageFile, fixesFile, tmpFiles>>
    /\ OthersUnchangedByStores

\* the handler resumes and its store call loads the file
LoadStore ==
    /\ \E h \in Handlers :
         /\ tasks[h].pc = "awaiting"
         /\ CanRun(h)
         /\ tasks' = [tasks EXCEPT ![h].pc = "loaded",
                                   ![h].local = FileOf(StoreOf(tasks[h].call)),
                                   ![h].seen = {o \in Handlers \ {h} :
                                                  tasks[o].pc \in {"awaiting", "loaded"}}]
    /\ UNCHANGED <<stateFile, historyFile, usageFile, fixesFile, tmpFiles>>
    /\ OthersUnchangedByStores

\* the store call replaces the file with what it loaded plus its update
SaveStore ==
    /\ \E h \in Handlers :
         LET call == tasks[h].call
             new == Update(h, call, tasks[h].local)
         IN /\ tasks[h].pc = "loaded"
            /\ CanRun(h)
            /\ tasks' = [tasks EXCEPT ![h].pc = "done"]
            /\ fixesFile' = IF StoreOf(call) = "fixes" THEN new ELSE fixesFile
            /\ historyFile' = IF StoreOf(call) = "history" THEN new ELSE historyFile
            /\ usageFile' = IF StoreOf(call) = "usage" THEN new ELSE usageFile
            /\ stateFile' = IF StoreOf(call) = "state" THEN new ELSE stateFile
    /\ UNCHANGED tmpFiles
    /\ OthersUnchangedByStores

NextRace == BeginHandler \/ LoadStore \/ SaveStore

SpecRace == InitRace /\ [][NextRace]_vars

----------------------------------------------------------------------------
(* A save step by step, and the process stopping in the middle of it *)

InitCrash ==
    /\ stateFile \in FreshFiles(EmptyMap)
    /\ historyFile = Missing(<< >>)
    /\ logged = << >>
    /\ usageFile = Missing(ZeroUsage)
    /\ fixesFile = Missing(<< >>)
    /\ InitStores

\* what the open file at the path of the save under way becomes
WriteFile(content) ==
    LET store == tmpFiles.store
        live == tmp_path(store) = LivePath(store)
    IN /\ fixesFile' = IF live /\ store = "fixes" THEN content ELSE fixesFile
       /\ historyFile' = IF live /\ store = "history" THEN content ELSE historyFile
       /\ usageFile' = IF live /\ store = "usage" THEN content ELSE usageFile
       /\ stateFile' = IF live /\ store = "state" THEN content ELSE stateFile
       /\ tmpFiles' = [tmpFiles EXCEPT
                         !.tmp[store] = IF live THEN @ ELSE content,
                         !.pc = IF content.st = "ok" THEN "written"
                                ELSE IF content = PartialFile /\ tmpFiles.pc = "opened"
                                THEN "partial" ELSE "opened"]

\* a store call has loaded the file and built the new content
BeginSave ==
    /\ tmpFiles.pc \in {"idle", "replaced", "stopped"}
    /\ tmpFiles.saves < MaxSaves
    /\ \E call \in StoreCalls :
         tmpFiles' = [tmpFiles EXCEPT
                        !.store = StoreOf(call), !.pc = "begun", !.saves = @ + 1,
                        !.old = FileOf(StoreOf(call)),
                        !.new = Update("h1", call, FileOf(StoreOf(call)))]
    /\ UNCHANGED <<stateFile, historyFile, usageFile, fixesFile, tasks>>
    /\ OthersUnchangedByStores

\* with open(tmp, "w") creates the file or empties it
OpenTmp ==
    /\ tmpFiles.pc = "begun"
    /\ WriteFile(PartialFile)
    /\ UNCHANGED tasks
    /\ OthersUnchangedByStores

\* json.dump has written a part of the document
WriteSome ==
    /\ tmpFiles.pc = "opened"
    /\ WriteFile(PartialFile)
    /\ UNCHANGED tasks
    /\ OthersUnchangedByStores

\* json.dump has written all of it and the with block has closed the file
WriteAll ==
    /\ tmpFiles.pc \in {"opened", "partial"}
    /\ WriteFile(tmpFiles.new)
    /\ UNCHANGED tasks
    /\ OthersUnchangedByStores

\* os.replace(tmp, FILE) puts the .tmp file in the place of the live file
ReplaceLive ==
    /\ tmpFiles.pc = "written"
    /\ LET store == tmpFiles.store
           moved == tmp_path(store) # LivePath(store)
           content == tmpFiles.tmp[store]
       IN /\ fixesFile' = IF moved /\ store = "fixes" THEN content ELSE fixesFile
          /\ historyFile' = IF moved /\ store = "history" THEN content ELSE historyFile
          /\ usageFile' = IF moved /\ store = "usage" THEN content ELSE usageFile
          /\ stateFile' = IF moved /\ store = "state" THEN content ELSE stateFile
          /\ tmpFiles' = [tmpFiles EXCEPT !.tmp[store] = IF moved THEN AbsentFile ELSE @,
                                          !.pc = "replaced"]
    /\ UNCHANGED tasks
    /\ OthersUnchangedByStores

\* the process stops during the save; the files stay as they are
Crash ==
    /\ tmpFiles.pc \in {"begun", "opened", "partial", "written"}
    /\ tmpFiles' = [tmpFiles EXCEPT !.pc = "stopped"]
    /\ UNCHANGED <<stateFile, historyFile, usageFile, fixesFile, tasks>>
    /\ OthersUnchangedByStores

NextCrash == BeginSave \/ OpenTmp \/ WriteSome \/ WriteAll \/ ReplaceLive \/ Crash

SpecCrash == InitCrash /\ [][NextCrash]_vars

----------------------------------------------------------------------------
(* The four stores together, starting without usable files *)

\* no store file exists, or none of them parses
InitFresh ==
    /\ \/ /\ stateFile = Missing(EmptyMap)
          /\ historyFile = Missing(<< >>)
          /\ usageFile = Missing(ZeroUsage)
          /\ fixesFile = Missing(<< >>)
       \/ /\ stateFile = Corrupt(EmptyMap)
          /\ historyFile = Corrupt(<< >>)
          /\ usageFile = Corrupt(ZeroUsage)
          /\ fixesFile = Corrupt(<< >>)
    /\ logged = << >>
    /\ InitStores

CallAddFix ==
    /\ steps < MaxAdds
    /\ \E confidence \in {80, 100} :
         Commit(AddFix(Cur, "manual", "t1", ChanName("t1"), "problem", "fix", confidence),
                "add_fix", "System", "None", <<confidence>>)
    /\ now' = now

NextStores == CallEnable \/ CallDisable \/ CallLogAction \/ CallTrackRequest \/ CallAddFix

SpecStores == InitFresh /\ [][NextStores]_vars

----------------------------------------------------------------------------
(* The similarity search on its own *)

Tagged(id, thread_name, tags) ==
    [FixEntry(id, 0, "manual", "t3", thread_name, "problem", "fix", 80) EXCEPT !.tags = tags]

\* stores as earlier runs may have left them
SearchStores ==
    {<< >>,
     <<Tagged(1, "How to install", << >>)>>,
     <<Tagged(1, "How to install", << >>), Tagged(2, "Crash", <<"Install Help", "GPU">>),
       Tagged(3, "bot crashes on start", <<"gpu">>), Tagged(4, "Reinstall the bot", << >>)>>}

Queries == {"install", "INSTALL", "bot", "gpu", "install help", "zzz-nomatch"}

InitSearch ==
    /\ stateFile = Missing(EmptyMap)
    /\ historyFile = Missing(<< >>)
    /\ logged = << >>
    /\ usageFile = Missing(ZeroUsage)
    /\ fixesFile \in FreshFiles(<< >>) \cup {Ok(fixes) : fixes \in SearchStores}
    /\ InitStores

CallGetSimilarFixes ==
    /\ steps < MaxSearches
    /\ \E query \in Queries, k \in 0..MaxK :
         Commit(Cur, "get_similar_fixes", "System", "None",
                <<query, k, get_similar_fixes(fixesFile, query, k)>>)
    /\ now' = now

NextSearch == CallGetSimilarFixes \/ CallAddFix

SpecSearch == InitSearch /\ [][NextSearch]_vars

----------------------------------------------------------------------------
(* The staff commands with one of their features switched off *)

CommandFeatures == {"ask", "say", "stats", "analyze", "search", "fix", "history",
                    "mark_for_review"}

\* an earlier run has switched one command off from the toggle panel
InitGate ==
    /\ \E f \in CommandFeatures : stateFile = Ok(Put(DefaultState, f, FALSE))
    /\ historyFile = Ok(OldHistory)
    /\ fixesFile = Ok(<<OldFix>>)
    /\ logged = load_history(historyFile)
    /\ usageFile = Missing(ZeroUsage)
    /\ InitPlatform
    /\ prev = Snapshot
    /\ flaky = FALSE

\* a staff command run in thread t1 with the platform working
RunCommand(cmd, S, u) ==
    CASE cmd = "fix" -> fix_command(S, u, "t1", "X", "Y", 80, NoFault)
      [] cmd = "analyze" -> analyze_command(S, u, "t1", "Restart the bot.", NoFault)
      [] cmd = "search" -> search_command(S, u, "t1", "question", NoFault)
      [] cmd = "say" -> say_command(S, u, "t1", "hello", TRUE, "Restart the bot.", NoFault)
      [] cmd = "ask" -> ask_command(S, u, "t1", "why?", "Restart the bot.", NoFault)
      [] cmd = "stats" -> stats_command(S, u, "t1", NoFault)
      [] cmd = "mark_for_review" -> mark_for_review_command(S, u, "t1", NoFault)
      [] OTHER -> history_command(S, u, "t1", 20, NoFault)

StaffCommand ==
    /\ steps < MaxGateSteps
    /\ \E cmd \in CommandFeatures, u \in {"alice", "bob"} :
         Commit(RunCommand(cmd, Cur, u), cmd, u, "t1", << >>)
    /\ now' = now

\* an admin switches a command on or off from the panel
SwitchCommand ==
    /\ steps < MaxGateSteps
    /\ \E f \in CommandFeatures, on \in BOOLEAN :
         Commit([Cur EXCEPT !.stateFile = IF on THEN enable(@, f) ELSE disable(@, f)],
                IF on THEN "enable()" ELSE "disable()", "alice", "None", <<f>>)
    /\ now' = now

NextGate == StaffCommand \/ SwitchCommand

SpecGate == InitGate /\ [][NextGate]_vars

----------------------------------------------------------------------------
(* The Generate Fix button pressed while an earlier press is still running *)

Presses == {"p1", "p2"}

IdlePress ==
    [pc |-> "idle", user |-> "None", chan |-> "None", asked |-> FALSE, prompt |-> "",
     answer |-> "", confidence |-> 0]

\* the stores and the platform as the piece of a handler leaves them
Stored(S) ==
    /\ stateFile' = S.stateFile
    /\ historyFile' = S.historyFile
    /\ usageFile' = S.usageFile
    /\ fixesFile' = S.fixesFile
    /\ nextId' = S.nextId
    /\ chans' = S.chans
    /\ posted' = S.posted
    /\ panels' = S.panels
    /\ msgs' = S.msgs
    /\ aiCalls' = S.aiCalls
    /\ logged' = S.logged
    /\ lastSet' = S.lastSet
    /\ prev' = Snapshot

Effect(S) == Stored(S) /\ UNCHANGED <<now, flaky, ai_client, tmpFiles, steps>>

Piece(S, op, p) ==
    [op |-> op, user |-> tasks[p].user, chan |-> tasks[p].chan, resp |-> S.resp,
     raised |-> S.raised, args |-> <<p>>, added |-> S.added, tracked |-> S.tracked]

\* both support threads carry a welcome message with a live button
InitPress ==
    /\ stateFile \in {Missing(EmptyMap), Ok(Put(DefaultState, "bot", FALSE))}
    /\ historyFile = Missing(<< >>)
    /\ fixesFile = Missing(<< >>)
    /\ usageFile = Missing(ZeroUsage)
    /\ logged = << >>
    /\ now = Now0
    /\ nextId = 1
    /\ chans = [Chans0 EXCEPT !["t2"].fixBtn = "active", !["t2"].pendingCreate = FALSE]
    /\ posted = EmptyMap
    /\ panels = [mode \in {"enable", "disable"} |-> ClosedPanel]
    /\ msgs = << >>
    /\ aiCalls = 0
    /\ last = NoOp
    /\ lastSet = EmptyMap
    /\ ai_client = IdleClient
    /\ tasks = [p \in Presses |-> IdlePress]
    /\ tmpFiles = NoTmpFiles
    /\ steps = 0
    /\ prev = Snapshot
    /\ flaky = FALSE

\* a click on the live button: the checks of the handler and its defer
PressButton ==
    \E p \in Presses, u \in Users, c \in Threads :
        LET allowed == /\ is_enabled(stateFile, "bot")
                       /\ (has_staff_role(u) \/ has_admin_role(u) \/ is_thread_owner(u, c))
            S == IF ~is_enabled(stateFile, "bot")
                 THEN Refuse(Cur, "Bot is currently disabled.", NoFault)
                 ELSE IF ~allowed
                 THEN Refuse(Cur, "Only staff or the thread creator can use this button.",
                             NoFault)
                 ELSE Defer(Cur, FALSE, NoFault)
        IN /\ tasks[p].pc = "idle"
           /\ chans[c].fixBtn = "active"
           /\ Effect(S)
           /\ tasks' = [tasks EXCEPT ![p] = [IdlePress EXCEPT
                                               !.pc = IF allowed THEN "deferred" ELSE "done",
                                               !.user = u, !.chan = c]]
           /\ last' = [Piece(S, "press", p) EXCEPT !.user = u, !.chan = c]

\* the handler reads the thread, consults the trained patterns and, without
\* a match, sends the prompt to the AI
GatherTranscript ==
    \E p \in Presses :
        LET c == tasks[p].chan
            thread_title == ChanName(c)
            trained_answer == get_trained_response(thread_title, Transcript(c))
            S == IF Transcript(c) = ""
                 THEN Respond(Cur, c, "followup", "No messages found.", TRUE, NoFault, 3)
                 ELSE IF trained_answer # "None"
                 THEN AddFix(Cur, "ai_button", c, thread_title, thread_title,
                             strip_markdown_embeds(trained_answer), 95)
                 ELSE [Cur EXCEPT !.aiCalls = @ + 1]
        IN /\ tasks[p].pc = "deferred"
           /\ Effect(S)
           /\ tasks' = [tasks EXCEPT
                          ![p].pc = IF Transcript(c) = "" THEN "done"
                                    ELSE IF trained_answer # "None" THEN "posting"
                                    ELSE "waiting",
                          ![p].asked = Transcript(c) # "" /\ trained_answer = "None",
                          ![p].prompt = FixPrompt(Cur, c),
                          ![p].answer = trained_answer,
                          ![p].confidence = 95]
           /\ last' = Piece(S, "gather", p)

\* generate_fix returns: the usage is tracked and the fix recorded
ReceiveReply ==
    \E p \in Presses, ai_response \in AIReplies :
        LET c == tasks[p].chan
            S1 == [Cur EXCEPT !.usageFile = track_request(@, now, Len(tasks[p].prompt),
                                                          Len(ai_response)),
                              !.tracked = Append(@, <<Len(tasks[p].prompt),
                                                      Len(ai_response)>>)]
            confidence == confidence_heuristic(ai_response)
            S == AddFix(S1, "ai_button", c, ChanName(c), ChanName(c),
                        strip_markdown_embeds(ai_response), confidence)
        IN /\ tasks[p].pc = "waiting"
           /\ Effect(S)
           /\ tasks' = [tasks EXCEPT ![p].pc = "posting", ![p].answer = ai_response,
                                     ![p].confidence = confidence]
           /\ last' = Piece(S, "reply", p)

\* the answer is posted with the feedback buttons
PostAnswer ==
    \E p \in Presses :
        LET c == tasks[p].chan
            S == [Respond(Cur, c, "followup", "AI-Generated Solution", FALSE, NoFault, 3)
                     EXCEPT !.chans[c].feedbackBtn = "active"]
        IN /\ tasks[p].pc = "posting"
           /\ Effect(S)
           /\ tasks' = [tasks EXCEPT ![p].pc = "editing"]
           /\ last' = Piece(S, "post", p)

\* the welcome message is edited, its button disabled, and the run logged
DisableButton ==
    \E p \in Presses :
        LET c == tasks[p].chan
            S == Log([Cur EXCEPT !.chans[c].fixBtn = "disabled"], "generate_fix_button",
                     tasks[p].user, "AI fix generated in thread: " \o ChanName(c), c)
        IN /\ tasks[p].pc = "editing"
           /\ Effect(S)
           /\ tasks' = [tasks EXCEPT ![p].pc = "done"]
           /\ last' = Piece(S, "disable", p)

NextPress == PressButton \/ GatherTranscript \/ ReceiveReply \/ PostAnswer \/ DisableButton

SpecPress == InitPress /\ [][NextPress]_vars

----------------------------------------------------------------------------
(* The watcher while its features are switched off and on *)

WatcherFlags == {"bot", "mark_for_review"}

InitHeld ==
    /\ \E off \in SUBSET WatcherFlags :
         stateFile = IF off = {} THEN Missing(EmptyMap)
                     ELSE Ok([f \in DOMAIN DefaultState |->
                                 IF f \in off THEN FALSE ELSE DefaultState[f]])
    /\ historyFile = Missing(<< >>)
    /\ logged = << >>
    /\ usageFile = Missing(ZeroUsage)
    /\ fixesFile = Missing(<< >>)
    /\ now = Now0
    /\ nextId = 1
    /\ \E th \in FoundThreads : chans = [Chans0 EXCEPT !["t1"] = th]
    /\ posted = EmptyMap
    /\ panels = [mode \in {"enable", "disable"} |-> ClosedPanel]
    /\ msgs = << >>
    /\ aiCalls = 0
    /\ last = NoOp
    /\ lastSet = EmptyMap
    /\ ai_client = IdleClient
    /\ tasks = NoTasks
    /\ tmpFiles = NoTmpFiles
    /\ steps = 0
    /\ prev = Snapshot
    /\ flaky = FALSE

\* an admin switches one of the watcher's features between two passes
SwitchWatcher ==
    /\ steps < MaxSweepSteps
    /\ \E f \in WatcherFlags, on \in BOOLEAN :
         Commit([Cur EXCEPT !.stateFile = IF on THEN enable(@, f) ELSE disable(@, f)],
                IF on THEN "enable()" ELSE "disable()", "alice", "None", <<f>>)
    /\ now' = now

NextHeld == SweepPass \/ HoursPass \/ SwitchWatcher

SpecHeld == InitHeld /\ [][NextHeld]_vars

----------------------------------------------------------------------------
(* The two background loops, iteration by iteration *)

\* pc: top (at the test of the while loop), sleeping (the regular sleep),
\* backoff (the sleep of the loop's except block), sending, ended; wait is the
\* length in seconds of the sleep under way or, later, of the latest sleep;
\* err tells where the latest error was caught: none, step (inside the step
\* that failed) or loop (by the except block of the loop)
IdleLoop == [pc |-> "top", wait |-> 0, err |-> "none"]

CHECK_INTERVAL_SECONDS == 1800
WATCHER_BACKOFF_SECONDS == 60
REPORT_BACKOFF_SECONDS == 3600

\* (midnight - now).total_seconds()
seconds_until_midnight == (((now \div 24) + 1) * 24 - now) * 3600

\* an exception that reaches the handler of the watcher's loop ends the task
on_watcher_error_exit == [pc |-> "ended", wait |-> 0, err |-> "loop"]

\* except Exception: logger.exception(...); await asyncio.sleep(60)
on_watcher_error == [pc |-> "backoff", wait |-> WATCHER_BACKOFF_SECONDS, err |-> "loop"]

\* except Exception: logger.error(...); await asyncio.sleep(3600)
on_report_error == [pc |-> "backoff", wait |-> REPORT_BACKOFF_SECONDS, err |-> "loop"]

\* thread.send fails for the thread at this position of the pass
SendFails(site) == [at |-> site, persist |-> FALSE]

InitLoops ==
    /\ stateFile = Missing(EmptyMap)
    /\ historyFile = Missing(<< >>)
    /\ logged = << >>
    /\ usageFile = Missing(ZeroUsage)
    /\ fixesFile = Missing(<< >>)
    /\ now = Now0
    /\ nextId = 1
    /\ chans = Chans0
    /\ posted = EmptyMap
    /\ panels = [mode \in {"enable", "disable"} |-> ClosedPanel]
    /\ msgs = << >>
    /\ aiCalls = 0
    /\ last = NoOp
    /\ lastSet = EmptyMap
    /\ ai_client = IdleClient
    /\ tasks = [watcher |-> IdleLoop, report |-> IdleLoop, closed |-> FALSE]
    /\ tmpFiles = NoTmpFiles
    /\ steps = 0
    /\ prev = Snapshot
    /\ flaky = FALSE

\* a step of a loop that touches neither the stores nor the platform
Idle ==
    UNCHANGED <<stateFile, historyFile, usageFile, fixesFile, now, nextId, chans, posted,
                panels, msgs, aiCalls, logged, lastSet, last, prev, flaky, ai_client,
                tmpFiles, steps>>

LoopStep(S, op) ==
    [op |-> op, user |-> "System", chan |-> "None", resp |-> S.resp, raised |-> S.raised,
     args |-> << >>, added |-> S.added, tracked |-> S.tracked]

\* one pass of the watcher, up to the sleep that ends it
WatcherPass ==
    \E flt \in {NoFault, SendFails(1)}, raises \in BOOLEAN :
        LET S == IF raises THEN Cur ELSE inactivity_watcher(Cur, flt)
            failed == S # inactivity_watcher(Cur, NoFault)
        IN /\ tasks.watcher.pc = "top"
           /\ ~tasks.closed
           /\ Effect(S)
           /\ tasks' = [tasks EXCEPT !.watcher =
                          IF raises THEN on_watcher_error
                          ELSE [pc |-> "sleeping", wait |-> CHECK_INTERVAL_SECONDS,
                                err |-> IF failed THEN "step" ELSE "none"]]
           /\ last' = LoopStep(S, "sweep")

\* the sleep of the watcher is over
WatcherWakes ==
    /\ tasks.watcher.pc \in {"sleeping", "backoff"}
    /\ tasks' = [tasks EXCEPT !.watcher.pc = "top"]
    /\ Idle

\* while not self.bot.is_closed()
WatcherEnds ==
    /\ tasks.watcher.pc = "top"
    /\ tasks.closed
    /\ tasks' = [tasks EXCEPT !.watcher.pc = "ended"]
    /\ Idle

\* the report loop works out the time to midnight and goes to sleep
ReportSleeps ==
    \E raises \in BOOLEAN :
        /\ tasks.report.pc = "top"
        /\ ~tasks.closed
        /\ tasks' = [tasks EXCEPT !.report =
                       IF raises THEN on_report_error
                       ELSE [@ EXCEPT !.pc = "sleeping", !.wait = seconds_until_midnight]]
        /\ Idle

\* the sleep of the report loop is over: after a backoff the loop starts
\* again, at midnight it goes on to send the report
ReportWakes ==
    /\ tasks.report.pc \in {"sleeping", "backoff"}
    /\ tasks' = [tasks EXCEPT !.report.pc =
                   IF tasks.report.pc = "backoff" THEN "top" ELSE "sending"]
    /\ UNCHANGED <<stateFile, historyFile, usageFile, fixesFile, nextId, chans, posted,
                   panels, msgs, aiCalls, logged, lastSet, last, prev>>
    /\ now' = IF tasks.report.pc = "backoff" \/ now >= 24 * MaxDays THEN now
              ELSE ((now \div 24) + 1) * 24
    /\ UNCHANGED <<flaky, ai_client, tmpFiles, steps>>

\* send_daily_report, which catches its own errors
ReportSends ==
    \E flt \in (IF Len(logged) < MaxLoopLogs THEN {NoFault, SendFails(1)}
                ELSE {SendFails(1)}) :
        LET S == send_daily_report(Cur, flt)
        IN /\ tasks.report.pc = "sending"
           /\ Effect(S)
           /\ tasks' = [tasks EXCEPT !.report.pc = "top",
                                     !.report.err = IF Fails(flt, 1) THEN "step" ELSE "none"]
           /\ last' = LoopStep(S, "daily_report")

\* SupportBot.close(): the report task is cancelled, the watcher sees
\* is_closed() at its next test
CloseBot ==
    /\ ~tasks.closed
    /\ tasks' = [tasks EXCEPT !.closed = TRUE, !.report.pc = "ended"]
    /\ Idle

NextLoops ==
    \/ WatcherPass \/ WatcherWakes \/ WatcherEnds
    \/ ReportSleeps \/ ReportWakes \/ ReportSends \/ CloseBot

\* the event loop runs every task that is ready and every timer fires; when
\* the bot is closed is up to its operator
SpecLoops ==
    /\ InitLoops /\ [][NextLoops]_vars
    /\ WF_vars(WatcherPass) /\ WF_vars(WatcherWakes) /\ WF_vars(WatcherEnds)
    /\ WF_vars(ReportSleeps) /\ WF_vars(ReportWakes) /\ WF_vars(ReportSends)

----------------------------------------------------------------------------
(* New threads while the welcome is switched off and on *)

\* two threads have just been created, t2 in the support forum and t3 in
\* another forum
InitWelcome ==
    /\ stateFile \in {Missing(EmptyMap), Ok(Put(DefaultState, "autoresponse", FALSE)),
                      Ok(Put(DefaultState, "bot", FALSE))}
    /\ historyFile = Missing(<< >>)
    /\ logged = << >>
    /\ usageFile = Missing(ZeroUsage)
    /\ fixesFile = Missing(<< >>)
    /\ now = Now0
    /\ nextId = 1
    /\ chans = [Chans0 EXCEPT !["t3"].pendingCreate = TRUE, !["t3"].lastMsg = Now0]
    /\ posted = EmptyMap
    /\ panels = [mode \in {"enable", "disable"} |-> ClosedPanel]
    /\ msgs = << >>
    /\ aiCalls = 0
    /\ last = NoOp
    /\ lastSet = EmptyMap
    /\ ai_client = IdleClient
    /\ tasks = NoTasks
    /\ tmpFiles = NoTmpFiles
    /\ steps = 0
    /\ prev = Snapshot
    /\ flaky = FALSE

\* on_thread_create, once for every new thread
ThreadCreated ==
    /\ steps < MaxWelcomeSteps
    /\ \E c \in Threads :
         /\ chans[c].pendingCreate
         /\ Commit(handle_new_thread([Cur EXCEPT !.chans[c].pendingCreate = FALSE], c, NoFault),
                   "thread_create", "System", c, << >>)
    /\ now' = now

\* an admin switches the welcome or the whole bot
SwitchWelcome ==
    /\ steps < MaxWelcomeSteps
    /\ \E f \in {"autoresponse", "bot"}, on \in BOOLEAN :
         Commit([Cur EXCEPT !.stateFile = IF on THEN enable(@, f) ELSE disable(@, f)],
                IF on THEN "enable()" ELSE "disable()", "alice", "None", <<f>>)
    /\ now' = now

NextWelcome == ThreadCreated \/ SwitchWelcome

SpecWelcome == InitWelcome /\ [][NextWelcome]_vars

----------------------------------------------------------------------------
(* The history queries on their own *)

\* a log as earlier runs may have left it
OldLog ==
    <<HistoryEntry(-3, "bot_start", "System", "Bot started successfully", "None"),
      HistoryEntry(-2, "ask", "alice", "details", "t1"),
      HistoryEntry(-1, "manual_fix", "bob", "details", "t1"),
      HistoryEntry(0, "ask", "bob", "details", "t1")>>

InitQuery ==
    /\ stateFile = Missing(EmptyMap)
    /\ historyFile \in FreshFiles(<< >>) \cup {Ok(OldLog)}
    /\ logged = load_history(historyFile)
    /\ usageFile = Missing(ZeroUsage)
    /\ fixesFile = Missing(<< >>)
    /\ InitStores

CallGetRecentHistory ==
    /\ steps < MaxQueries
    /\ \E limit \in 0..MaxLimit :
         Commit(Cur, "get_recent_history", "System", "None",
                <<limit, get_recent_history(historyFile, limit)>>)
    /\ now' = now

CallGetHistoryByType ==
    /\ steps < MaxQueries
    /\ \E action_type \in {"ask", "manual_fix", "backup"}, limit \in 0..MaxLimit :
         Commit(Cur, "get_history_by_type", "System", "None",
                <<limit, get_history_by_type(historyFile, action_type, limit), action_type>>)
    /\ now' = now

CallGetHistoryByUser ==
    /\ steps < MaxQueries
    /\ \E user \in {"alice", "bob", "carol"}, limit \in 0..MaxLimit :
         Commit(Cur, "get_history_by_user", "System", "None",
                <<limit, get_history_by_user(historyFile, user, limit), user>>)
    /\ now' = now

NextQuery ==
    CallGetRecentHistory \/ CallGetHistoryByType \/ CallGetHistoryByUser \/ CallLogAction

SpecQuery == InitQuery /\ [][NextQuery]_vars

----------------------------------------------------------------------------
(* The watcher while the platform rejects some of its posts *)

InitNudge ==
    /\ stateFile = Missing(EmptyMap)
    /\ historyFile = Missing(<< >>)
    /\ logged = << >>
    /\ usageFile = Missing(ZeroUsage)
    /\ fixesFile = Missing(<< >>)
    /\ now = Now0
    /\ nextId = 1
    /\ chans = Chans0
    /\ posted = EmptyMap
    /\ panels = [mode \in {"enable", "disable"} |-> ClosedPanel]
    /\ msgs = << >>
    /\ aiCalls = 0
    /\ last = NoOp
    /\ lastSet = EmptyMap
    /\ ai_client = IdleClient
    /\ tasks = NoTasks
    /\ tmpFiles = NoTmpFiles
    /\ steps = 0
    /\ prev = Snapshot
    /\ flaky = TRUE

\* one iteration of the watcher's loop; thread.send may raise in one of the
\* threads of the pass or in all of them
FlakySweepPass ==
    /\ steps < MaxSweepSteps
    /\ \E flt \in Faults({1, 2}) :
         Commit(inactivity_watcher(Cur, flt), "sweep", "System", "None", <<flt>>)
    /\ now' = now

NextNudge == FlakySweepPass \/ HoursPass \/ MemberWrites

SpecNudge == InitNudge /\ [][NextNudge]_vars

----------------------------------------------------------------------------
(* The handlers that ask the AI, and one that never does *)

NextTraffic ==
    \/ PressGenerateFix \/ PressSolved \/ AnalyzeCommand \/ SayCommand \/ AskCommand
    \/ SearchCommand

SpecTraffic == Init /\ [][NextTraffic]_vars

----------------------------------------------------------------------------
(* The review buttons in a thread that carries tags *)

NextSolved == PressSolved \/ PressUnsolved

SpecSolved == InitSweep /\ [][NextSolved]_vars

----------------------------------------------------------------------------
(* The toggle panels and a command behind the kill switch *)

NextSwitch == EnableCommand \/ DisableCommand \/ PressToggle \/ AskCommand

SpecSwitch == Init /\ [][NextSwitch]_vars

----------------------------------------------------------------------------
(* Properties *)

HoldsRole(u, roles) == UserRoles(u) \cap roles # {}

StaffCommands == {"fix", "analyze", "search", "say", "ask", "stats",
                  "mark_for_review", "history"}

ThreadButtons == {"generate_fix", "mark_solved", "mark_unsolved"}

Buttons == ThreadButtons \cup {"feedback", "save_analysis", "save_solved"}

\* the only response of the last operation is one message that only the
\* caller sees
CallerOnlyRefusal ==
    /\ Len(last.resp) = 1
    /\ last.resp[1].via = "send_message"
    /\ last.resp[1].ephemeral

StoresUntouched ==
    /\ fixesFile = prev.fixesFile
    /\ usageFile = prev.usageFile
    /\ historyFile = prev.historyFile

\* no AI call, no write to the Fix Store or the Usage Ledger, no lock or tag
\* change, no message that the channel sees
NoSideEffect ==
    /\ aiCalls = prev.aiCalls
    /\ fixesFile = prev.fixesFile
    /\ usageFile = prev.usageFile
    /\ \A c \in Channels : /\ chans[c].locked = prev.chans[c].locked
                           /\ chans[c].tags = prev.chans[c].tags
    /\ msgs = prev.msgs

\* C1: while the bot flag is disabled, no staff command and no button handler
\* has a side effect, and its only response is a caller-only refusal
KillSwitchBlocksHandlers ==
    (last.op \in StaffCommands \cup Buttons /\ ~is_enabled(prev.stateFile, "bot"))
        => (NoSideEffect /\ CallerOnlyRefusal)

\* C2: a caller with neither an admin nor a staff role who invokes a staff
\* command gets a caller-only refusal; the Fix Store, the Usage Ledger and the
\* Action History Log stay as they were and no AI call is made
RoleLessCallerRefused ==
    (last.op \in StaffCommands /\ ~HoldsRole(last.user, ADMIN_ROLE_IDS \cup STAFF_ROLE_IDS))
        => (CallerOnlyRefusal /\ StoresUntouched /\ aiCalls = prev.aiCalls)

RoleLessFixAttempt ==
    /\ last.op = "fix"
    /\ last.user = "carol"
    /\ is_enabled(prev.stateFile, "bot")
    /\ is_enabled(prev.stateFile, "fix")
    /\ CallerOnlyRefusal

\* the caller holds an admin or staff role or owns the thread of the button
Eligible == \/ HoldsRole(last.user, ADMIN_ROLE_IDS \cup STAFF_ROLE_IDS)
            \/ ThreadOwnerId(last.chan) = last.user

\* the handler got past its checks: it acknowledged the press
Proceeded ==
    /\ Len(last.resp) >= 1
    /\ \/ last.resp[1].via = "defer"
       \/ last.resp[1].text = "Thread marked as unsolved."

RefusedWithoutEffect ==
    /\ CallerOnlyRefusal
    /\ NoSideEffect
    /\ StoresUntouched
    /\ chans = prev.chans

\* C3 as stated: generate_fix, mark_solved and mark_unsolved proceed if and
\* only if the caller holds an admin or staff role or owns the thread, and a
\* caller who is refused causes no side effect
ThreadButtonsProceedIffEligible ==
    last.op \in ThreadButtons
        => /\ Proceeded <=> Eligible
           /\ ~Eligible => RefusedWithoutEffect

\* C3 (amended): mark_solved and mark_unsolved proceed if and only if the
\* caller holds an admin or staff role or owns the thread; generate_fix
\* proceeds if and only if, in addition, the bot flag is enabled; a press that
\* does not proceed gets a caller-only refusal and has no side effect
ThreadButtonsProceedIffEligibleAndLive ==
    last.op \in ThreadButtons
        => /\ Proceeded <=> /\ Eligible
                            /\ last.op = "generate_fix" => is_enabled(prev.stateFile, "bot")
           /\ ~Proceeded => RefusedWithoutEffect

OwnerOfOtherThreadRefused ==
    /\ last.op = "mark_solved"
    /\ last.user = "carol"
    /\ last.chan = "t2"
    /\ ~Proceeded

\* C4: the state file changes only through the press of a toggle button by a
\* caller who holds an admin role
OnlyAdminToggleWritesState ==
    stateFile # prev.stateFile
        => (last.op = "toggle" /\ HoldsRole(last.user, ADMIN_ROLE_IDS))

AdminToggled ==
    /\ last.op = "toggle"
    /\ last.user = "alice"
    /\ stateFile # prev.stateFile
    /\ ~is_enabled(stateFile, last.args[2])

\* C5: every operation leaves the records of the Fix Store in place, unchanged
\* and in order, and each add_fix call it makes appends one record with
\* version 1 and the source, thread, problem, fix and confidence it was given
FixStoreAppendOnly ==
    LET old == load_fixes(prev.fixesFile)
        new == load_fixes(fixesFile)
        k == Len(last.added)
    IN /\ Len(new) = Len(old) + k
       /\ \A i \in 1..Len(old) : new[i] = old[i]
       /\ \A i \in 1..k :
            LET r == new[Len(old) + i]
                a == last.added[i]
            IN /\ r.version = 1
               /\ r.source = a.source
               /\ r.thread_id = a.thread_id
               /\ r.thread_name = a.thread_name
               /\ r.problem_summary = a.problem_summary
               /\ r.fix = a.fix
               /\ r.confidence = a.confidence

FixAppendedToNonEmptyStore ==
    /\ Len(last.added) = 1
    /\ Len(load_fixes(prev.fixesFile)) >= 1
    /\ Len(load_fixes(fixesFile)) >= 2

\* C6: the history file holds the most recent min(n, 1000) of the n entries
\* logged so far, in the order they were logged
HistoryKeepsLatestThousand ==
    LET h == load_history(historyFile)
        n == Len(logged)
        m == IF n < 1000 THEN n ELSE 1000
    IN /\ Len(h) = m
       /\ \A i \in 1..m : h[i] = logged[n - m + i]

OldestEntryEvicted ==
    /\ last.op = "log_action"
    /\ Len(load_history(prev.historyFile)) = 1000
    /\ Len(logged) = 1001
    /\ load_history(historyFile)[1] = load_history(prev.historyFile)[2]

\* the bucket of key k, all zero when there is none
BucketOf(obj, k) == IF HasKey(obj, k) THEN Lookup(obj, k) ELSE ZeroBucket

\* C7: a track_request call adds one request, its character counts and its
\* cost to the totals, to the bucket of the current day and to the bucket of
\* the current month, creates either bucket if it is absent, and leaves every
\* other bucket as it was
TrackRequestAddsToThreePlaces ==
    last.op = "track_request" =>
        LET old == load_usage(prev.usageFile)
            new == load_usage(usageFile)
            input_chars == last.args[1]
            output_chars == last.args[2]
            cost == (input_chars * 125 + output_chars * 375)
            Added(o, n) == /\ n.requests = o.requests + 1
                           /\ n.input_chars = o.input_chars + input_chars
                           /\ n.output_chars = o.output_chars + output_chars
                           /\ n.cost = o.cost + cost
            Framed(o, n, k) ==
                /\ Keys(n) = Keys(o) \cup {k}
                /\ Len(n) = Cardinality(Keys(n))
                /\ Added(BucketOf(o, k), BucketOf(n, k))
                /\ \A j \in Keys(o) \ {k} : BucketOf(n, j) = BucketOf(o, j)
        IN /\ new.total_requests = old.total_requests + 1
           /\ new.total_input_chars = old.total_input_chars + input_chars
           /\ new.total_output_chars = old.total_output_chars + output_chars
           /\ new.total_cost = old.total_cost + cost
           /\ Framed(old.daily, new.daily, DayKey(now))
           /\ Framed(old.monthly, new.monthly, MonthKey(now))

TrackedIntoExistingBucket ==
    /\ last.op = "track_request"
    /\ last.args = <<8, 16>>
    /\ HasKey(load_usage(prev.usageFile).daily, DayKey(now))
    /\ Len(load_usage(usageFile).daily) >= 2
    /\ Len(load_usage(usageFile).monthly) >= 2

\* C8: is_enabled(f) is what the latest enable(f) or disable(f) set, and true
\* for a name that none of them has set
FlagFollowsLatestCall ==
    \A f \in Features \cup ToggleNames : is_enabled(stateFile, f) = Get(lastSet, f, TRUE)

ReEnabledAfterDisable ==
    /\ last.op = "enable()"
    /\ last.args[1] = "beta"
    /\ ~is_enabled(prev.stateFile, "beta")
    /\ is_enabled(stateFile, "beta")
    /\ ~is_enabled(stateFile, "ask")

\* C9: with the state file missing or unparseable, get_all_states maps each of
\* the twelve recognized feature names to true
FreshStateListsAllFeatures ==
    stateFile.st # "ok" => get_all_states(stateFile) = [f \in Features |-> TRUE]

\* C10: the panel an admin opens offers a button for every recognized feature
\* that is enabled (disable panel) or disabled (enable panel), and after a
\* press the panel shown again offers the features that still qualify
PanelOffersEveryFeature ==
    (last.op \in {"enable", "disable", "toggle"} /\ HoldsRole(last.user, ADMIN_ROLE_IDS))
        => \A mode \in {"enable", "disable"} :
              (panels[mode].open /\ (last.op = "toggle" => last.args[1] = mode)
                                 /\ (last.op # "toggle" => last.op = mode))
                 => panels[mode].buttons =
                       {f \in Features : is_enabled(stateFile, f) = (mode = "disable")}

InFlight == {k \in Callers : ai_client.call[k].pc = "inflight"}

Suspended == {k \in Callers : ai_client.call[k].pc = "waiting"}

\* C11: at no moment are more than max_concurrency (2) requests of one
\* AIClient in flight: every request in flight holds one slot of the
\* semaphore, and a caller that finds no slot free stays suspended.
AtMostTwoRequestsInFlight ==
    /\ Cardinality(InFlight) <= MAX_CONCURRENCY
    /\ ai_client.permits = MAX_CONCURRENCY - Cardinality(InFlight)
    /\ ai_client.permits >= 0

ThirdCallerSuspended ==
    /\ Cardinality(InFlight) = MAX_CONCURRENCY
    /\ Suspended # {}

Returned == {k \in Callers : ai_client.call[k].pc = "returned"}

\* C12: generate_fix never lets an exception out: a timed-out request gives
\* the fixed "timed out" string, every other failure of the request or
\* exception raised while reading the response gives the fixed "failed"
\* string, and each call sends exactly one HTTP request.
GenerateFixNeverRaises ==
    \A k \in Callers :
        LET c == ai_client.call[k]
        IN /\ c.posts <= 1
           /\ c.pc \in {"inflight", "returned"} => c.posts = 1
           /\ c.pc = "returned" =>
                /\ c.result.exc = "none"
                /\ c.result.type = "str"
                /\ c.response = "timed_out" => c.result.text = AI_TIMEOUT
                /\ c.response \in {"connection_failed"} \cup BrokenResponses =>
                       c.result.text = AI_FAILED

TimeoutAndBrokenBodyReturned ==
    /\ \E k \in Returned : ai_client.call[k].response = "timed_out"
    /\ \E k \in Returned : ai_client.call[k].response = "bad_part"

\* the service did not answer the request successfully
NotSucceeded(name) ==
    \/ ResponseOf(name).net # "ok"
    \/ ResponseOf(name).status \notin 200..299
    \/ name \in BrokenResponses

\* C13: whenever the call to the service does not succeed (timeout,
\* connection failure, non-2xx status, malformed body) generate_fix returns
\* one of the two fixed placeholder strings.
EveryFailureYieldsPlaceholder ==
    \A k \in Returned :
        NotSucceeded(ai_client.call[k].response) =>
            ai_client.call[k].result.text \in {AI_TIMEOUT, AI_FAILED}

\* the content of the first candidates (or outputs) entry of a JSON object
FirstContent(data) ==
    LET entries == IF Truthy(DictGet(data, "candidates", JNone))
                   THEN DictGet(data, "candidates", JNone)
                   ELSE DictGet(data, "outputs", JList(<< >>))
    IN IF entries.v = << >> THEN JNone ELSE DictGet(entries.v[1], "content", JNone)

\* the texts of the parts, one after the other
PartTexts(parts) ==
    LET Upto[i \in 0..Len(parts)] ==
            IF i = 0 THEN "" ELSE Upto[i - 1] \o Lookup(parts[i].v, "text").v
    IN Upto[Len(parts)]

\* the text the documented shapes carry, "" when they carry none
Extracted(data) ==
    LET content == IF data.t = "dict" THEN FirstContent(data) ELSE JNone
    IN CASE content.t = "list" -> PartTexts(Lookup(content.v[1].v, "parts").v)
         [] content.t = "dict" -> Lookup(Lookup(content.v, "parts").v[1].v, "text").v
         [] content.t = "str" -> content.v
         [] OTHER -> ""

\* the top-level string fields text / message / output
TopFields(data) ==
    IF data.t # "dict" THEN {}
    ELSE {Lookup(data.v, key).v :
            key \in {f \in {"text", "message", "output"} :
                        HasKey(data.v, f) /\ Lookup(data.v, f).t = "str"}}

JsonResponses == ShapedResponses \cup {"quota", "server_error"}

\* C14: a JSON response gives the concatenated part texts of a list-valued
\* content, the first part's text of a mapping-valued content, a string
\* content itself, else a top-level text / message / output string, else the
\* stringified response; the example response gives "Hello"; a body that is
\* not JSON gives the first 4000 characters of the raw body.
ResponseNormalized ==
    \A k \in Returned :
        LET name == ai_client.call[k].response
            body == ResponseOf(name).body
            text == ai_client.call[k].result.text
        IN /\ name = "hello" => text = "Hello"
           /\ name \in JsonResponses =>
                IF Extracted(body.data) # "" THEN text = Extracted(body.data)
                ELSE IF TopFields(body.data) # {} THEN text \in TopFields(body.data)
                ELSE text = Repr(body.data)
           /\ (ResponseOf(name).net = "ok" /\ ~body.json /\ body.decodable) =>
                /\ Len(text) = (IF Len(body.raw) < 4000 THEN Len(body.raw) ELSE 4000)
                /\ text = SubSeq(body.raw, 1, Len(text))

LongBodyCutAndPartsJoined ==
    /\ \E k \in Returned : /\ ai_client.call[k].response = "long_text"
                           /\ Len(ai_client.call[k].result.text) = 4000
    /\ \E k \in Returned : /\ ai_client.call[k].response = "two_parts"
                           /\ ai_client.call[k].result.text = "Restart the bot."

\* the nudges among the messages from position i on
NudgesSince(messages, i, c) ==
    {j \in i..Len(messages) : messages[j].chan = c /\ messages[j].kind = "inactivity_check"}

\* unlocked, unarchived, without a resolved tag, silent for more than twelve
\* hours and without a nudge marker
DueForNudge(S, c, t) ==
    /\ ~S.chans[c].locked /\ ~S.chans[c].archived
    /\ \A tag \in S.chans[c].tags : LowerTag(tag) \notin {"resolved", "solved", "closed"}
    /\ S.chans[c].lastMsg >= 0
    /\ t - S.chans[c].lastMsg > INACTIVITY_HOURS
    /\ c \notin DOMAIN S.posted

\* C15: a pass of the inactivity sweep posts exactly one nudge in a support
\* thread that is due for one, posts none in a thread that was nudged less
\* than twelve hours before, and looking at a thread a second time in the
\* same pass posts nothing more.
SweepNudgesOnce ==
    /\ last.op = "sweep" =>
         \A c \in ForumThreads :
             /\ DueForNudge(prev, c, prev.now) =>
                    Cardinality(NudgesSince(msgs, Len(prev.msgs) + 1, c)) = 1
             /\ (\E j \in NudgesSince(prev.msgs, 1, c) :
                     now - prev.msgs[j].at < INACTIVITY_HOURS) =>
                    NudgesSince(msgs, Len(prev.msgs) + 1, c) = {}
    /\ \A c \in ForumThreads :
           LET once == check_thread_inactivity(Cur, c, now, NoFault, 1)
           IN check_thread_inactivity(once, c, now, NoFault, 1).msgs = once.msgs

NudgedThenLeftAlone ==
    /\ last.op = "sweep"
    /\ NudgesSince(msgs, Len(prev.msgs) + 1, "t1") = {}
    /\ \E j \in NudgesSince(prev.msgs, 1, "t1") :
           /\ now - prev.msgs[j].at < INACTIVITY_HOURS
           /\ now - prev.msgs[j].at > 0
    /\ "t1" \notin DOMAIN prev.posted

\* staff, admin or the owner of the thread the button was pressed in
AuthorizedPress ==
    \/ HoldsRole(last.user, ADMIN_ROLE_IDS \cup STAFF_ROLE_IDS)
    \/ ThreadOwnerId(last.chan) = last.user

\* the tags of the parent forum that are called "resolved" in any casing
NamedResolved(c) ==
    AvailableTags(ThreadParent(c)) \cap {"resolved", "Resolved", "RESOLVED"}

\* C16: after a mark_solved press by staff, an admin or the thread's owner
\* that met no platform error the thread is locked and carries the forum's
\* "resolved" tag if there is one; a press by anyone else leaves the
\* thread's lock and tags as they were.
MarkSolvedLocksAndTags ==
    (last.op = "mark_solved" /\ ~last.raised) =>
        IF AuthorizedPress
        THEN /\ chans[last.chan].locked
             /\ NamedResolved(last.chan) \subseteq chans[last.chan].tags
        ELSE /\ chans[last.chan].locked = prev.chans[last.chan].locked
             /\ chans[last.chan].tags = prev.chans[last.chan].tags

OpenThreadSolvedByOwner ==
    /\ last.op = "mark_solved"
    /\ ThreadOwnerId(last.chan) = last.user
    /\ ~prev.chans[last.chan].locked
    /\ "Resolved" \notin prev.chans[last.chan].tags
    /\ chans[last.chan].locked
    /\ "Resolved" \in chans[last.chan].tags

\* C17: after a mark_unsolved press by staff, an admin or the thread's owner
\* the thread is unlocked and the configured support role has been pinged
\* in it.
MarkUnsolvedUnlocks ==
    (last.op = "mark_unsolved" /\ AuthorizedPress) =>
        /\ ~chans[last.chan].locked
        /\ SUPPORT_ROLE_ID # "" =>
               \E j \in Len(prev.msgs) + 1..Len(msgs) :
                   msgs[j].chan = last.chan /\ msgs[j].kind = "support_ping"

Done(call) == {h \in Handlers : tasks[h].pc = "done" /\ tasks[h].call = call}

\* the update of every handler that finished is in its store
UpdateKept(h) ==
    CASE tasks[h].call = "add_fix" ->
           \E i \in 1..Len(load_fixes(fixesFile)) : load_fixes(fixesFile)[i].id = h
      [] tasks[h].call = "log_action" ->
           \E i \in 1..Len(load_history(historyFile)) : load_history(historyFile)[i].user = h
      [] tasks[h].call = "track_request" ->
           load_usage(usageFile).total_requests = Cardinality(Done("track_request"))
      [] tasks[h].call = "enable" -> Get(load_state(stateFile), FeatureOf(h), FALSE)
      [] OTHER -> ~Get(load_state(stateFile), FeatureOf(h), TRUE)

\* C18: the stores take no lock, but a store call runs from its load to its
\* save without an await, so handlers of the bot that update the same store
\* at the same time never interleave inside a call and no update is lost.
NoUpdateLost ==
    \A h \in Handlers : tasks[h].pc = "done" => UpdateKept(h)

BothRacingUpdatesKept ==
    \E a, b \in Handlers :
        /\ a # b
        /\ tasks[a].pc = "done" /\ tasks[b].pc = "done"
        /\ tasks[a].call = "add_fix" /\ tasks[b].call = "add_fix"
        /\ b \in tasks[a].seen
        /\ UpdateKept(a) /\ UpdateKept(b)

\* C18 as stated: while one handler is between the load and the save of a
\* store call, another handler waiting to update the same store can run its
\* own load, so that the first save is overwritten.
ConcurrentCallsInterleave ==
    \A a, b \in Handlers :
        (/\ a # b
         /\ tasks[a].pc = "loaded"
         /\ tasks[b].pc = "awaiting"
         /\ StoreOf(tasks[a].call) = StoreOf(tasks[b].call)) => CanRun(b)

\* C19: whenever a save stops, and at every moment of it, the live file of
\* each store is complete: the one being saved holds the whole content it
\* had before the save or the whole new content, and no live file is ever
\* partly written.
LiveFileOldOrNew ==
    /\ \A store \in Stores : FileOf(store).st # "partial"
    /\ tmpFiles.store # "none" =>
           \/ FileOf(tmpFiles.store) = tmpFiles.old
           \/ FileOf(tmpFiles.store) = tmpFiles.new

StoppedWhileWriting ==
    /\ tmpFiles.pc = "stopped"
    /\ tmpFiles.saves = 2
    /\ tmpFiles.tmp[tmpFiles.store] = PartialFile
    /\ FileOf(tmpFiles.store) = tmpFiles.old
    /\ tmpFiles.old.st = "ok"
    /\ tmpFiles.old # tmpFiles.new

Unusable(file) == file.st \in {"missing", "corrupt"}

\* the ledger after one request on a zero ledger
OneRequestUsage(t, input_chars, output_chars) ==
    LET cost == input_chars * 125 + output_chars * 375
        bucket == [requests |-> 1, input_chars |-> input_chars,
                   output_chars |-> output_chars, cost |-> cost]
    IN [total_requests |-> 1, total_input_chars |-> input_chars,
        total_output_chars |-> output_chars, total_cost |-> cost,
        daily |-> << <<DayKey(t), bucket>> >>, monthly |-> << <<MonthKey(t), bucket>> >>]

\* C20: a store file that is missing or does not parse reads as the empty
\* list, the zero ledger or the default map, and the first update written
\* over it leaves a well-formed file holding that default plus the update.
UnusableFileReadsAsDefault ==
    /\ Unusable(fixesFile) => load_fixes(fixesFile) = << >>
    /\ Unusable(historyFile) => load_history(historyFile) = << >>
    /\ Unusable(usageFile) => load_usage(usageFile) = ZeroUsage
    /\ Unusable(stateFile) => load_state(stateFile) = DefaultState
    /\ (last.op = "add_fix" /\ Unusable(prev.fixesFile)) =>
         /\ fixesFile.st = "ok"
         /\ Len(fixesFile.data) = 1
         /\ fixesFile.data[1].problem_summary = last.added[1].problem_summary
         /\ fixesFile.data[1].fix = last.added[1].fix
         /\ fixesFile.data[1].confidence = last.args[1]
         /\ fixesFile.data[1].version = 1
    /\ (last.op = "log_action" /\ Unusable(prev.historyFile)) =>
         historyFile = Ok(<<HistoryEntry(prev.now, last.args[1], last.user,
                                         "details", "System")>>)
    /\ (last.op = "track_request" /\ Unusable(prev.usageFile)) =>
         usageFile = Ok(OneRequestUsage(prev.now, last.args[1], last.args[2]))
    /\ (last.op \in {"enable()", "disable()"} /\ Unusable(prev.stateFile)) =>
         /\ stateFile.st = "ok"
         /\ DOMAIN stateFile.data = DOMAIN DefaultState \cup {last.args[1]}
         /\ \A f \in DOMAIN stateFile.data :
                stateFile.data[f] = IF f = last.args[1] THEN last.op = "enable()"
                                    ELSE DefaultState[f]

CorruptFilesRepaired ==
    /\ last.op = "disable()"
    /\ last.args[1] = "ask"
    /\ prev.stateFile.st = "corrupt"
    /\ stateFile.st = "ok"
    /\ ~stateFile.data["ask"] /\ stateFile.data["bot"]
    /\ fixesFile.st = "ok"
    /\ historyFile.st = "ok"
    /\ usageFile.st = "corrupt"

\* the record's title, or one of the blank-separated words of its tags,
\* contains the query when both are put in lower case
MatchesQuery(f, query) ==
    \/ Occurs(Lower(query), Lower(f.thread_name))
    \/ \E j \in 1..Len(f.tags) : \E t \in Split(Lower(f.tags[j])) : Occurs(Lower(query), t)

\* C21: get_similar_fixes(query, k) returns the first k matching records
\* of the store in storage order, all of them when fewer than k match: never
\* more than k, and none when nothing matches.
SearchReturnsFirstMatches ==
    last.op = "get_similar_fixes" =>
        LET query == last.args[1]
            k == last.args[2]
            results == last.args[3]
            fixes == load_fixes(fixesFile)
            hits == {i \in 1..Len(fixes) : MatchesQuery(fixes[i], query)}
            Before(i) == Cardinality({j \in hits : j < i})
        IN /\ Len(results) <= k
           /\ Len(results) = (IF Cardinality(hits) < k THEN Cardinality(hits) ELSE k)
           /\ \A i \in hits : Before(i) < k => results[Before(i) + 1] = fixes[i]
           /\ hits = {} => results = << >>

SearchCutAtK ==
    /\ last.op = "get_similar_fixes"
    /\ last.args[1] = "INSTALL"
    /\ last.args[2] = 2
    /\ Len(load_fixes(fixesFile)) = 4
    /\ Len(last.args[3]) = 2
    /\ last.args[3][1].id = 1
    /\ last.args[3][2].id = 2

\* every answer of the handler was for the caller alone
OnlyCallerSaw == \A i \in 1..Len(last.resp) : last.resp[i].ephemeral

\* C22: while the flag of a command's own feature is disabled, an authorized
\* invocation of that command makes no AI call, writes nothing to the Fix
\* Store, the Usage Ledger or the Action History Log, and shows nothing but
\* a refusal to the caller alone; the flag is read from the store at every
\* invocation.
DisabledCommandRefuses ==
    (/\ last.op \in CommandFeatures
     /\ HoldsRole(last.user, ADMIN_ROLE_IDS \cup STAFF_ROLE_IDS)
     /\ ~Get(load_state(prev.stateFile), last.op, TRUE))
        => /\ aiCalls = prev.aiCalls
           /\ StoresUntouched
           /\ msgs = prev.msgs
           /\ last.resp # << >>
           /\ last.resp[Len(last.resp)].text = DISABLED
           /\ OnlyCallerSaw

\* the threads in whose lower-cased title and transcript some keyword of a
\* trained pattern occurs
TrainedThreads ==
    {c \in Threads :
        \E i \in 1..Len(TRAINED_PATTERNS) : \E keyword \in TRAINED_PATTERNS[i].keywords :
            Occurs(Lower(keyword), Lower(ChanName(c) \o " " \o Transcript(c)))}

TrainedPatternMatches(c) == c \in TrainedThreads

\* C23: in a run of the Generate Fix button the trained patterns decide
\* before the AI is asked: the AI is called and the call is tracked only
\* when no trained pattern matches the thread's title and transcript; on a
\* match the run makes no AI call and leaves the Usage Ledger unchanged,
\* and a run that answers without a match asked the AI exactly once.
TrainedAnswerBeforeAI ==
    last.op = "generate_fix" =>
        /\ TrainedPatternMatches(last.chan) =>
              /\ aiCalls = prev.aiCalls
              /\ usageFile = prev.usageFile
              /\ last.tracked = << >>
        /\ (aiCalls # prev.aiCalls \/ last.tracked # << >> \/ usageFile # prev.usageFile)
              => ~TrainedPatternMatches(last.chan)
        /\ (last.added # << >> /\ ~TrainedPatternMatches(last.chan)) =>
              /\ aiCalls = prev.aiCalls + 1
              /\ Len(last.tracked) = 1

\* the thread "How to install" was answered from the trained patterns
TrainedAnswerPosted ==
    /\ last.op = "generate_fix"
    /\ TrainedPatternMatches(last.chan)
    /\ Len(last.added) = 1
    /\ last.added[1].fix = TRAINED_PATTERNS[1].response
    /\ last.added[1].confidence = 95
    /\ aiCalls = prev.aiCalls

\* the runs of the button of thread c that asked the AI
AskedFor(c) == {p \in Presses : tasks[p].chan = c /\ tasks[p].asked}

\* the Fix Records the button of thread c produced
ButtonFixes(c) ==
    {i \in 1..Len(load_fixes(fixesFile)) :
        /\ load_fixes(fixesFile)[i].source = "ai_button"
        /\ load_fixes(fixesFile)[i].thread_id = c}

\* C24: for the Generate Fix button of one welcome message at most one fix
\* generation takes effect: at most one AI call and at most one Fix Record
\* with source ai_button, also when the button is pressed again while the
\* first run is still in progress.
OneGenerationPerButton ==
    \A c \in Threads :
        /\ Cardinality(AskedFor(c)) <= 1
        /\ Cardinality(ButtonFixes(c)) <= 1

\* C25: a pass of the inactivity sweep that starts while the bot feature or
\* the mark_for_review feature is disabled posts no nudge in any thread and
\* records no inactivity marker.
DisabledSweepDoesNothing ==
    (/\ last.op = "sweep"
     /\ \/ ~is_enabled(prev.stateFile, "bot")
        \/ ~is_enabled(prev.stateFile, "mark_for_review"))
        => /\ msgs = prev.msgs
           /\ posted = prev.posted
           /\ chans = prev.chans

\* a thread due for a nudge was passed over while only mark_for_review was off
DueThreadPassedOver ==
    /\ last.op = "sweep"
    /\ is_enabled(prev.stateFile, "bot")
    /\ ~is_enabled(prev.stateFile, "mark_for_review")
    /\ DueForNudge(prev, "t1", prev.now)
    /\ msgs = prev.msgs
    /\ posted = prev.posted

\* what makes the watcher pass a thread over
NotToBeNudged(S, c, t) ==
    \/ S.chans[c].locked
    \/ S.chans[c].archived
    \/ \E tag \in S.chans[c].tags : Lower(tag) \in {"resolved", "solved", "closed"}
    \/ S.chans[c].lastMsg < 0
    \/ t - S.chans[c].lastMsg <= INACTIVITY_HOURS

\* C26: the inactivity sweep never nudges a thread that, when the pass checks
\* it, is locked, archived, tagged resolved, solved or closed (in any
\* casing), has no messages, or whose last message is not more than twelve
\* hours old.
SweepSparesLiveAndClosedThreads ==
    last.op = "sweep" =>
        \A c \in ForumThreads :
            NotToBeNudged(prev, c, prev.now) =>
                /\ NudgesSince(msgs, Len(prev.msgs) + 1, c) = {}
                /\ chans[c] = prev.chans[c]
                /\ (c \in DOMAIN posted) = (c \in DOMAIN prev.posted)

\* a pass left alone an open thread whose last message was exactly twelve
\* hours old
TwelveHoursOldLeftAlone ==
    /\ last.op = "sweep"
    /\ ~prev.chans["t1"].locked /\ ~prev.chans["t1"].archived
    /\ prev.chans["t1"].tags = {}
    /\ prev.now - prev.chans["t1"].lastMsg = INACTIVITY_HOURS
    /\ NudgesSince(msgs, Len(prev.msgs) + 1, "t1") = {}

\* the wait a loop's except block imposes
Backoff(loop) == IF loop = "watcher" THEN WATCHER_BACKOFF_SECONDS ELSE REPORT_BACKOFF_SECONDS

\* a loop has ended only after the bot was closed; the except block of a
\* loop answers an error with its backoff, and an error caught inside a step
\* leaves the regular wait
LoopsSurviveErrors ==
    \A loop \in {"watcher", "report"} :
        /\ tasks[loop].pc = "ended" => tasks.closed
        /\ tasks[loop].pc = "backoff" =>
               tasks[loop].err = "loop" /\ tasks[loop].wait = Backoff(loop)
        /\ (tasks[loop].pc = "top" /\ tasks[loop].err = "loop") =>
               tasks[loop].wait = Backoff(loop)
        /\ (tasks[loop].pc = "top" /\ tasks[loop].err = "step") =>
               tasks[loop].wait > Backoff(loop)

NoExceptionEscapes == ~last.raised

\* the first reply of the handler, its acknowledgment, failed
AckFailed == last.resp # << >> /\ ~last.resp[1].ok

\* C29: a handler acknowledges the interaction (defers or answers) before
\* its first AI call and before its first read or write of a store file,
\* and a handler whose acknowledgment fails does no further work: nothing
\* of the stores, the AI or the channels has changed when it returns.
AckBeforeWork ==
    AckFailed => /\ stateFile = prev.stateFile
                 /\ StoresUntouched
                 /\ aiCalls = prev.aiCalls
                 /\ msgs = prev.msgs
                 /\ chans = prev.chans

\* the welcome message of thread c
Welcome(c) == [chan |-> c, kind |-> "welcome", at |-> now]

NoWelcomeWhileBotDisabled ==
    (last.op = "thread_create" /\ ~is_enabled(prev.stateFile, "bot")) =>
        /\ msgs = prev.msgs
        /\ chans[last.chan].fixBtn = prev.chans[last.chan].fixBtn

\* the entries of the log that a history query selects from
Selected ==
    LET history == load_history(historyFile)
    IN CASE last.op = "get_history_by_type" ->
              SelectSeq(history, LAMBDA h : h.action_type = last.args[3])
         [] last.op = "get_history_by_user" ->
              SelectSeq(history, LAMBDA h : h.user = last.args[3])
         [] OTHER -> history

\* C32: for every limit >= 0, get_recent_history(limit) returns the last
\* min(limit, n) entries of the log in chronological order, and
\* get_history_by_type / get_history_by_user return the last min(limit, m) of
\* the entries whose field matches exactly; the result never has more than
\* limit entries, and limit = 0 yields an empty result.
HistoryQueriesReturnLastLimit ==
    last.op \in {"get_recent_history", "get_history_by_type", "get_history_by_user"} =>
        LET limit == last.args[1]
            result == last.args[2]
            m == Len(Selected)
            size == IF limit < m THEN limit ELSE m
        IN /\ Len(result) <= limit
           /\ result = SubSeq(Selected, m - size + 1, m)

\* a query with a positive limit was cut to the newest entries
QueryCutAtLimit ==
    /\ last.op = "get_history_by_user"
    /\ last.args[3] = "bob"
    /\ last.args[1] = 1
    /\ Len(Selected) >= 2
    /\ last.args[2] = <<Selected[Len(Selected)]>>

\* C33: the slot taken by generate_fix is given back on every exit path
\* (success, non-JSON body, timeout, other failure), so all max_concurrency
\* slots are free whenever no call is in flight, and under fair scheduling
\* every suspended caller of generate_fix acquires a slot and returns.
SlotsReleasedAndCallersServed ==
    /\ [](InFlight = {} => ai_client.permits = MAX_CONCURRENCY)
    /\ [][\A k \in Callers :
            (ai_client.call[k].pc = "inflight" /\ ai_client'.call[k].pc = "returned")
                => ai_client'.permits = ai_client.permits + 1]_vars
    /\ \A k \in Callers :
          (ai_client.call[k].pc = "waiting") ~> (ai_client.call[k].pc = "returned")

\* all three callers have returned, one after a timeout, one after a
\* connection failure and one with a body that is not JSON, and both slots
\* are free again
AllCallersServed ==
    /\ Returned = Callers
    /\ ai_client.permits = MAX_CONCURRENCY
    /\ {ai_client.call[k].response : k \in Callers} = {"timed_out", "connection_failed", "gateway"}
    /\ ai_client.made > Cardinality(Callers)

\* C34: the inactivity marker of a thread is recorded only when a nudge was
\* actually posted in that thread: a marker always has its nudge message,
\* and a thread whose nudge failed to post has no marker and is nudged by
\* the next pass.
MarkerOnlyAfterNudge ==
    \A c \in DOMAIN posted :
        \E j \in NudgesSince(msgs, 1, c) : msgs[j].at = posted[c]

\* the sum of one field over the buckets of a daily or monthly object
RECURSIVE SumOfBuckets(_, _)
SumOfBuckets(obj, field) ==
    IF obj = << >> THEN 0
    ELSE obj[1][2][field] + SumOfBuckets(Tail(obj), field)

\* C35: after any sequence of track_request calls that starts from an empty
\* ledger, total_requests is the sum of requests over the daily buckets and
\* over the monthly buckets, and so are the totals of the input and of the
\* output characters.
LedgerTotalsMatchBuckets ==
    LET usage == load_usage(usageFile)
        Matches(total, field) ==
            /\ total = SumOfBuckets(usage.daily, field)
            /\ total = SumOfBuckets(usage.monthly, field)
    IN /\ Matches(usage.total_requests, "requests")
       /\ Matches(usage.total_input_chars, "input_chars")
       /\ Matches(usage.total_output_chars, "output_chars")

\* four requests on three days of two months
LedgerOverDaysAndMonths ==
    LET usage == load_usage(usageFile)
    IN /\ usage.total_requests = 4
       /\ Len(usage.daily) = 3
       /\ Len(usage.monthly) = 2
       /\ usage.total_input_chars > 8
       /\ usage.total_output_chars > 16

\* the handlers that contain a generate_fix call
AICallers == {"generate_fix", "mark_solved", "analyze", "say", "ask"}

\* C36: every generate_fix call of a handler, the ones that return a failure
\* placeholder included, is followed by exactly one track_request, and
\* track_request is never called without an AI call before it, so that
\* total_requests is the number of completed AI calls.
UsageMatchesAITraffic ==
    /\ Len(last.tracked) = aiCalls - prev.aiCalls
    /\ last.op \notin AICallers => last.tracked = << >>
    /\ load_usage(usageFile).total_requests = aiCalls
    /\ load_usage(usageFile).total_requests
          = load_usage(prev.usageFile).total_requests + Len(last.tracked)

\* the second AI call of the run gave the failure placeholder and was
\* tracked like the first
FailedCallTracked ==
    /\ last.op = "analyze"
    /\ prev.aiCalls = 1
    /\ aiCalls = 2
    /\ Len(last.tracked) = 1
    /\ last.tracked[1][2] = Len(AI_FAILED)
    /\ load_usage(usageFile).total_requests = 2
    /\ load_usage(usageFile).total_output_chars > Len(AI_FAILED)

\* thread c was nudged less than twelve hours before t and the marker of
\* that nudge is gone: the process was started again in between
NudgedBeforeRestart(S, c, t) ==
    /\ c \notin DOMAIN S.posted
    /\ \E j \in NudgesSince(S.msgs, 1, c) : t - S.msgs[j].at < INACTIVITY_HOURS

\* C37: a restart causes no duplicate nudge: the marker map is lost, but a
\* thread that was nudged less than twelve hours ago is not nudged again by
\* the first pass after the restart, because the nudge is the latest message
\* of the thread.
NoDuplicateNudgeAfterRestart ==
    /\ last.op = "sweep" =>
         \A c \in ForumThreads :
             NudgedBeforeRestart(prev, c, prev.now) =>
                 /\ NudgesSince(msgs, Len(prev.msgs) + 1, c) = {}
                 /\ c \notin DOMAIN posted
    /\ \A c \in ForumThreads :
           NudgedBeforeRestart(Cur, c, now) => now - chans[c].lastMsg < INACTIVITY_HOURS

\* the first pass after a restart came six hours after the nudge of t1 and
\* left the thread alone
RestartedThenLeftAlone ==
    /\ last.op = "sweep"
    /\ NudgedBeforeRestart(prev, "t1", prev.now)
    /\ prev.posted = EmptyMap
    /\ \E j \in NudgesSince(prev.msgs, 1, "t1") : now - prev.msgs[j].at >= 6
    /\ msgs = prev.msgs

\* C38: marking a thread solved only adds to its tags: every tag the thread
\* carried before an authorized mark_solved press is still applied after
\* it, and the forum's "resolved" tag is added when the forum defines one.
MarkSolvedKeepsTags ==
    (last.op = "mark_solved" /\ AuthorizedPress /\ ~last.raised) =>
        /\ prev.chans[last.chan].tags \subseteq chans[last.chan].tags
        /\ NamedResolved(last.chan) \subseteq chans[last.chan].tags

\* C39: the kill switch can always be undone: in every reachable state with
\* the bot feature disabled an admin who runs the enable command gets a
\* panel that offers bot, and pressing that button leaves is_enabled("bot")
\* true; neither the enable command nor the toggle callback is held back by
\* the kill switch.
KillSwitchRecoverable ==
    /\ ~is_enabled(stateFile, "bot") =>
         \A u \in {a \in Users : can_use_admin_only(a)} :
             LET opened == panel_command(Cur, "enable", u, "general", NoFault)
                 pressed == button_callback(opened, "enable", "bot", u, "general", NoFault)
             IN /\ opened.panels["enable"].open
                /\ "bot" \in opened.panels["enable"].buttons
                /\ ~opened.raised /\ ~pressed.raised
                /\ is_enabled(pressed.stateFile, "bot")
    /\ (/\ last.op = "toggle" /\ last.args = <<"enable", "bot">>
        /\ can_use_admin_only(last.user)) => is_enabled(stateFile, "bot")
    /\ (/\ last.op = "enable" /\ can_use_admin_only(last.user)
        /\ ~is_enabled(stateFile, "bot")) => "bot" \in panels["enable"].buttons

\* an admin switched the bot on again from the enable panel
BotSwitchedOnAgain ==
    /\ last.op = "toggle"
    /\ last.args = <<"enable", "bot">>
    /\ can_use_admin_only(last.user)
    /\ ~is_enabled(prev.stateFile, "bot")
    /\ is_enabled(stateFile, "bot")

\* C40: the fix store never receives a failure placeholder of the AI client
\* as a fix: a Generate Fix run in which the client returned "AI request
\* timed out." or "AI request failed." appends no record, so that
\* get_similar_fixes never hands such a placeholder out as a past fix.
NoPlaceholderSavedAsFix ==
    LET fixes == load_fixes(fixesFile)
    IN /\ \A i \in 1..Len(fixes) : fixes[i].fix \notin {AI_TIMEOUT, AI_FAILED}
       /\ \A i \in 1..Len(last.added) : last.added[i].fix \notin {AI_TIMEOUT, AI_FAILED}
       /\ \A c \in Threads :
              \A i \in 1..Len(get_similar_fixes(fixesFile, ChanName(c), 5)) :
                  get_similar_fixes(fixesFile, ChanName(c), 5)[i].fix
                      \notin {AI_TIMEOUT, AI_FAILED}

====
